---- MODULE Spec2Model ----
(***************************************************************************)
(* Session- and token-security layer of the blog API                       *)
(* (backend/backend: routes/auth.py, routes/user.py, auth/middlewares.py,  *)
(* models/session.py, models/token_blacklist.py, models/security.py).      *)
(*                                                                         *)
(* State: the two SQLite tables user_sessions and token_blacklist, the     *)
(* per-user token settings, the wall clock, the tokens and csrf_state      *)
(* cookies that clients hold, and one record per worker thread for the     *)
(* request it has inside a handler.                                        *)
(*                                                                         *)
(* A request first meets the before_request CSRF gate and the endpoint's   *)
(* jwt_required (expiry, token type, token_in_blocklist_loader).  A        *)
(* request that is turned away is one step.  POST /api/refresh and         *)
(* PUT /api/user/update run in several steps, so that the committed        *)
(* database statements of concurrent requests interleave; logout and       *)
(* /api/me are one step.                                                   *)
(*                                                                         *)
(* Specifications: Spec (one login and its requests, with the clock and    *)
(* the start-up sweep), SpecF (the same requests with database errors),    *)
(* SpecAccounts (several logins, bad credentials, the user_status table),  *)
(* SpecSettings (PUT /api/settings/token-settings and requests to the      *)
(* admin routes), SpecNetwork (a session that is refreshed from another    *)
(* network), SpecCounter (refreshes of one session that interleave         *)
(* between the SELECT and the UPDATE of track_request_counter), SpecIdle   *)
(* (a session that is refreshed and then left alone) and SpecRelogin (a    *)
(* user who logs in again after all their tokens were blacklisted).  The   *)
(* views of the admin blueprint stand behind                               *)
(* admin_security_check, which is modelled up to the point where its       *)
(* monitor checks would start; no request gets that far.                   *)
(***************************************************************************)
EXTENDS Integers, Sequences, FiniteSets, TLC

\* ------------------------------------------------------------------------
\* Bounds of the model
\* ------------------------------------------------------------------------
MaxLogins == 1
MaxRefreshes == 1
MaxTicks == 1
\* logins of the specification of the accounts
MaxSessions == 2

\* ------------------------------------------------------------------------
\* Program constants (seconds)
\* ------------------------------------------------------------------------
MAX_INACTIVITY == 3600
JWT_ACCESS_TOKEN_EXPIRES == 1800
JWT_REFRESH_TOKEN_EXPIRES == 1296000
CSRF_MAX_AGE == 86400
SENTINEL_LIFETIME == 31536000

Users == {1, 2}
Threads == {1, 2}

\* None / NULL / absent header, for text values
None == "None"
\* None for a hash, a csrf_state value or an address (empty, falsy)
NoHash == <<>>
\* None for a user id or a session key (falsy)
NoId == 0

\* Client-chosen X-Device-Fingerprint values.  The header is an arbitrary
\* client string; "device_fingerprint" is one of them.
Fingerprints == {"fpA", "device_fingerprint"}

\* Durations by which the clock advances between two steps
TickSteps == {1, MAX_INACTIVITY, MAX_INACTIVITY + 1, CSRF_MAX_AGE, CSRF_MAX_AGE + 1,
              SENTINEL_LIFETIME + 1}

\* ------------------------------------------------------------------------
\* Conversions
\* ------------------------------------------------------------------------
\* hashlib.sha256(x).hexdigest(): injective on the modelled inputs, and its
\* value is never equal to its argument
Sha256(x) == <<"sha256", x>>
\* hexdigest()[:16]
Hex16(h) == <<"hex16", h>>
\* datetime.isoformat() of an instant, stored as a TEXT value
IsoFormat(t) == [cls |-> "text", t |-> t]
\* datetime.fromisoformat()
FromIso(v) == v.t
\* the integer exp claim of a token, bound as an INTEGER value
Epoch(t) == [cls |-> "int", t |-> t]
\* SQLite '<' between a stored value and an isoformat() parameter: two ISO
\* strings of the same layout order as their instants; an integer is smaller
\* than any text (storage-class order), and its decimal rendering, had the
\* column TEXT affinity, starts with a digit smaller than the year's.
SqlLess(a, b) ==
    IF a.cls = "text" /\ b.cls = "text" THEN a.t < b.t
    ELSE a.cls = "int" /\ b.cls = "text"
\* str(uuid.uuid4())
Uuid4(n) == [kind |-> "uuid4", id |-> n]
\* f"user_all_tokens:{user_id}"; the int user id and the str 'sub' claim
\* render to the same text
SentinelJti(user_id) == [kind |-> "user_all_tokens", id |-> user_id]

\* request paths as segment lists; str.startswith / str.endswith on them
StartsWith(path, p) == Len(p) <= Len(path) /\ SubSeq(path, 1, Len(p)) = p
EndsWith(path, seg) == Len(path) > 0 /\ path[Len(path)] = seg
AnyStartsWith(path, prefixes) == \E p \in prefixes : StartsWith(path, p)

\* the endpoints served by the modelled handlers
Ops == {"refresh", "logout", "me", "update", "settings"}
PathOf(op) ==
    CASE op = "refresh" -> <<"api", "refresh">>
      [] op = "logout" -> <<"api", "logout">>
      [] op = "me" -> <<"api", "me">>
      [] op = "update" -> <<"api", "user", "update">>
      [] op = "settings" -> <<"api", "settings", "token-settings">>
      [] OTHER -> <<"api">>
MethodOf(op) ==
    CASE op \in {"refresh", "logout"} -> "POST"
      [] op \in {"update", "settings"} -> "PUT"
      [] OTHER -> "GET"
\* paths a request can carry: the modelled endpoints, login, and an admin route
AdminPath == <<"api", "admin", "sessions">>
LoginPath == <<"api", "login">>
Paths == {PathOf(op) : op \in Ops} \cup {AdminPath, LoginPath}

VARIABLES
    now,          \* wall clock (seconds)
    ticks,        \* number of clock advances so far
    sessions,     \* table user_sessions: session_key -> row
    blacklist,    \* table token_blacklist: sequence of rows in rowid order
    settings,     \* table user_settings: user -> <<token_lifetime, refresh_token_lifetime>>
    blocked,      \* table user_status: the users with is_blocked = 1
    issued,       \* tokens handed out to clients
    cookies,      \* csrf_state cookie values handed out, with their birth time
    nextKey,      \* number of session keys drawn so far
    nextJti,      \* number of uuid4 / token_hex values drawn so far
    thr           \* requests inside a handler, one per worker thread

vars == <<now, ticks, sessions, blacklist, settings, blocked, issued, cookies,
          nextKey, nextJti, thr>>

\* ------------------------------------------------------------------------
\* models/token_blacklist.py
\* ------------------------------------------------------------------------
HasJti(bl, jti) == \E i \in 1..Len(bl) : bl[i].jti = jti
RowsWithJti(bl, jti) == {i \in 1..Len(bl) : bl[i].jti = jti}

\* blacklist_token that writes nothing
BlacklistToken_WritesNothing(bl, jti, user_id, expires_at) == bl

\* blacklist_token without its SELECT: the row is inserted on every call
BlacklistToken_AlwaysInserts(bl, jti, user_id, expires_at) ==
    Append(bl, [jti |-> jti, user_id |-> user_id, expires_at |-> expires_at])

\* TokenBlacklist.blacklist_token: SELECT, then INSERT unless a row exists.
\* Returns the table; the call returns True on both paths.
BlacklistToken(bl, jti, user_id, expires_at) ==
    IF HasJti(bl, jti) THEN bl
    ELSE Append(bl, [jti |-> jti, user_id |-> user_id, expires_at |-> expires_at])

\* is_token_blacklisted that looks for the jti only
IsTokenBlacklisted_JtiOnly(bl, jti, user_id) == HasJti(bl, jti)

\* TokenBlacklist.is_token_blacklisted, when its queries succeed
IsTokenBlacklisted(bl, jti, user_id) ==
    IF HasJti(bl, jti) THEN TRUE
    ELSE IF user_id # NoId THEN HasJti(bl, SentinelJti(user_id))
    ELSE FALSE

\* TokenBlacklist.is_token_blacklisted when a query raises: the except
\* branch logs and returns False
IsTokenBlacklistedOnError == FALSE

\* TokenBlacklist.clear_expired_tokens: DELETE ... WHERE expires_at < now
ClearExpiredTokens(bl, t) ==
    SelectSeq(bl, LAMBDA row : ~SqlLess(row.expires_at, IsoFormat(t)))

\* blacklist_user_tokens without its DELETE: earlier rows of the user stay
BlacklistUserTokens_KeepsRows(bl, user_id, t) ==
    Append(bl, [jti |-> SentinelJti(user_id), user_id |-> user_id,
                expires_at |-> IsoFormat(t + SENTINEL_LIFETIME)])

\* TokenBlacklist.blacklist_user_tokens: DELETE the user's rows, INSERT the
\* sentinel with expiry now + 365 days, one commit
BlacklistUserTokens(bl, user_id, t) ==
    Append(SelectSeq(bl, LAMBDA row : row.user_id # user_id),
           [jti |-> SentinelJti(user_id), user_id |-> user_id,
            expires_at |-> IsoFormat(t + SENTINEL_LIFETIME)])

\* ------------------------------------------------------------------------
\* models/session.py
\* ------------------------------------------------------------------------
\* `name in row` for a sqlite3.Row: Row defines no __contains__, so `in`
\* iterates over the row's VALUES.  Of the columns of user_sessions only
\* state and device_fingerprint hold text that can equal a column name: the
\* others hold integers, hex digests, ISO timestamps or JSON.
RowContains(row, name) == row.state = name \/ row.device_fingerprint = name

\* store_session that replaces the rows the user already has
StoreSession_Replaces(ss, user_id, session_key, csrf_state, session_state, expires_at, device_fingerprint, t) ==
    [k \in {x \in DOMAIN ss : ss[x].user_id # user_id} \cup {session_key} |->
        IF k = session_key
        THEN [user_id |-> user_id, csrf_state |-> csrf_state, state |-> session_state,
              expires_at |-> expires_at,
              device_fingerprint |-> device_fingerprint,
              last_activity |-> IsoFormat(t), request_counter |-> 0,
              last_counter_update |-> IsoFormat(t),
              ip_network_hash |-> NoHash, activity_times |-> <<>>]
        ELSE ss[k]]

\* SessionManager.store_session
StoreSession(ss, user_id, session_key, csrf_state, session_state, expires_at, device_fingerprint, t) ==
    [k \in DOMAIN ss \cup {session_key} |->
        IF k = session_key
        THEN [user_id |-> user_id, csrf_state |-> csrf_state, state |-> session_state,
              expires_at |-> expires_at,
              device_fingerprint |-> device_fingerprint,
              last_activity |-> IsoFormat(t), request_counter |-> 0,
              last_counter_update |-> IsoFormat(t),
              ip_network_hash |-> NoHash, activity_times |-> <<>>]
        ELSE ss[k]]

\* update_session that writes its device_fingerprint argument even when the
\* request carried none
UpdateSession_WritesNullFingerprint(ss, session_key, csrf_state, session_state, device_fingerprint) ==
    IF session_key \notin DOMAIN ss THEN ss
    ELSE [ss EXCEPT ![session_key] =
            [@ EXCEPT !.csrf_state = IF csrf_state # NoHash THEN csrf_state ELSE @,
                      !.state = IF session_state # None THEN session_state ELSE @,
                      !.device_fingerprint = device_fingerprint]]

\* SessionManager.update_session: only the truthy arguments are written
UpdateSession(ss, session_key, csrf_state, session_state, device_fingerprint) ==
    IF session_key \notin DOMAIN ss THEN ss
    ELSE [ss EXCEPT ![session_key] =
            [@ EXCEPT !.csrf_state = IF csrf_state # NoHash THEN csrf_state ELSE @,
                      !.state = IF session_state # None THEN session_state ELSE @,
                      !.device_fingerprint =
                          IF device_fingerprint # None THEN device_fingerprint ELSE @]]

\* (SessionManager.update_activity has one caller, the before_request hook
\* update_session_activity, which reads get_jwt() before any token has been
\* verified and returns from its except branch: last_activity keeps the
\* value store_session gave it.)

\* SessionManager.check_activity: [ok, ss] = the result and the table after it
CheckActivity(ss, session_key, t) ==
    IF session_key \notin DOMAIN ss THEN [ok |-> FALSE, ss |-> ss]
    ELSE IF t - FromIso(ss[session_key].last_activity) > MAX_INACTIVITY
    THEN [ok |-> FALSE, ss |-> [ss EXCEPT ![session_key].state = "expired"]]
    ELSE [ok |-> TRUE, ss |-> ss]

\* SessionManager.validate_session
ValidateSession(ss, session_key, user_id) ==
    /\ session_key \in DOMAIN ss
    /\ ss[session_key].user_id = user_id
    /\ ss[session_key].state = "active"

\* validate_fingerprint that accepts any fingerprint on a session stored
\* without one
ValidateFingerprint_NullAccepts(ss, session_key, device_fingerprint, t) ==
    /\ session_key # NoId /\ device_fingerprint # None
    /\ session_key \in DOMAIN ss
    /\ ss[session_key].state = "active"
    /\ ~(FromIso(ss[session_key].expires_at) < t)
    /\ \/ ss[session_key].device_fingerprint = None
       \/ ss[session_key].device_fingerprint = device_fingerprint

\* SessionManager.validate_fingerprint, when its query succeeds
ValidateFingerprint(ss, session_key, device_fingerprint, t) ==
    IF session_key = NoId \/ device_fingerprint = None THEN FALSE
    ELSE IF session_key \notin DOMAIN ss THEN FALSE
    ELSE IF ss[session_key].state # "active" THEN FALSE
    ELSE IF FromIso(ss[session_key].expires_at) < t THEN FALSE
    ELSE LET session == ss[session_key]
             stored_fingerprint ==
                 IF RowContains(session, "device_fingerprint")
                 THEN session.device_fingerprint ELSE None
         IN  IF stored_fingerprint = None THEN FALSE
             ELSE stored_fingerprint = device_fingerprint

\* SessionManager.validate_fingerprint when the query raises: the except
\* branch returns False
ValidateFingerprintOnError == FALSE

\* sensitive prefixes of check_session_valid
SessionSensitivePaths == {<<"api", "admin">>, <<"api", "user", "update">>, <<"api", "settings">>}

\* SessionManager.check_session_valid: [ok, ss]
CheckSessionValid(ss, session_key, device_fingerprint, path, t) ==
    IF session_key = NoId THEN [ok |-> FALSE, ss |-> ss]
    ELSE IF ~(/\ session_key \in DOMAIN ss
              /\ SqlLess(IsoFormat(t), ss[session_key].expires_at)
              /\ ss[session_key].state = "active")
    THEN [ok |-> FALSE, ss |-> ss]
    ELSE IF device_fingerprint # None
    THEN IF ~ValidateFingerprint(ss, session_key, device_fingerprint, t)
         THEN [ok |-> FALSE, ss |-> ss]
         ELSE CheckActivity(ss, session_key, t)
    ELSE IF /\ RowContains(ss[session_key], "device_fingerprint")
            /\ ss[session_key].device_fingerprint # None
            /\ AnyStartsWith(path, SessionSensitivePaths)
    THEN [ok |-> FALSE, ss |-> ss]
    ELSE CheckActivity(ss, session_key, t)

\* SessionManager.delete_session
DeleteSession(ss, session_key) ==
    [k \in DOMAIN ss \ {session_key} |-> ss[k]]

\* SessionManager.clear_expired: DELETE ... WHERE expires_at < now
ClearExpired(ss, t) ==
    [k \in {x \in DOMAIN ss : ~SqlLess(ss[x].expires_at, IsoFormat(t))} |-> ss[k]]

\* ------------------------------------------------------------------------
\* models/security.py
\* ------------------------------------------------------------------------
\* the network_class of get_ip_network_hash: three octets of a private
\* address, two octets of a public one
NetworkClass(ip) ==
    IF \/ ip[1] = 10
       \/ (ip[1] = 172 /\ 16 <= ip[2] /\ ip[2] <= 31)
       \/ (ip[1] = 192 /\ ip[2] = 168)
    THEN SubSeq(ip, 1, 3)
    ELSE SubSeq(ip, 1, 2)

\* SecurityMonitor.get_ip_network_hash: sha256 of "network_class|User-Agent"
GetIpNetworkHash(ip, ua) ==
    IF ip = NoHash THEN NoHash ELSE Sha256(<<NetworkClass(ip), ua>>)

\* SecurityMonitor.check_network_change, the table after it: the guard
\* `'ip_network_hash' in session` looks for that text among the one selected
\* value, so stored_hash stays None and the hash is (re)written on each call.
\* The call returns (True, False).
CheckNetworkChange(ss, session_key, ip, ua) ==
    IF GetIpNetworkHash(ip, ua) = NoHash \/ session_key \notin DOMAIN ss THEN ss
    ELSE [ss EXCEPT ![session_key].ip_network_hash = GetIpNetworkHash(ip, ua)]

\* track_request_counter, lines 67-79: the SELECT and `or 0`; the session
\* row exists
ReadRequestCounter(ss, session_key) == ss[session_key].request_counter

\* track_request_counter, lines 96-100: the UPDATE that stores the value
\* read earlier plus one
WriteRequestCounter(ss, session_key, current_counter, t) ==
    IF session_key \notin DOMAIN ss THEN ss
    ELSE [ss EXCEPT ![session_key].request_counter = current_counter + 1,
                    ![session_key].last_counter_update = IsoFormat(t)]

\* SecurityMonitor.track_request_counter with nothing between its SELECT
\* and its UPDATE: the table after it
TrackRequestCounter(ss, session_key, t) ==
    IF session_key \notin DOMAIN ss THEN ss
    ELSE WriteRequestCounter(ss, session_key, ReadRequestCounter(ss, session_key), t)

\* a flag raised by the time since last_counter_update alone
CounterSuspicious_TimeOnly(ss, session_key, t) ==
    /\ ss[session_key].last_counter_update.cls = "text"
    /\ t - FromIso(ss[session_key].last_counter_update) < 2

\* track_request_counter, the flag `suspicious` of a call that succeeds:
\* time_diff < 2 and new_counter - current_counter > 1, with new_counter
\* computed as current_counter + 1 two lines above
CounterSuspicious(ss, session_key, t) ==
    LET current_counter == ss[session_key].request_counter
        new_counter == current_counter + 1
        last_update == ss[session_key].last_counter_update
    IN  /\ last_update.cls = "text"
        /\ t - FromIso(last_update) < 2
        /\ new_counter - current_counter > 1

\* a track_activity_pattern that reads the saved list back
StoredActivityTimes_ReadsBack(ss, session_key) == ss[session_key].activity_times

\* the list track_activity_pattern reads back: its query selects the one
\* column activity_times, and `'activity_times' in session` looks for that
\* text among the row's values, a JSON list or NULL, so activity_times_data
\* stays None and the list starts empty
StoredActivityTimes(ss, session_key) == <<>>

\* activity_times[-20:]
ACTIVITY_TIMES_KEPT == 20
Last20(s) ==
    IF Len(s) > ACTIVITY_TIMES_KEPT THEN SubSeq(s, Len(s) - ACTIVITY_TIMES_KEPT + 1, Len(s)) ELSE s

\* track_activity_pattern, the list it saves
ActivityTimes(ss, session_key, t) == Last20(Append(StoredActivityTimes(ss, session_key), t))

\* sorted(activity_times)
RECURSIVE SortedTimes(_)
SortedTimes(s) ==
    IF Len(s) <= 1 THEN s
    ELSE LET m == CHOOSE i \in 1..Len(s) : \A j \in 1..Len(s) : s[i] <= s[j]
         IN  <<s[m]>> \o SortedTimes(SubSeq(s, 1, m - 1) \o SubSeq(s, m + 1, Len(s)))

\* the number of gaps below 0.5 s between neighbours of a sorted list; the
\* clock of the model counts whole seconds, so such a gap is a gap of 0
RapidGaps(s) == Cardinality({i \in 2..Len(s) : 2 * (s[i] - s[i - 1]) < 1})

\* track_activity_pattern, the flag `suspicious` of a call that succeeds
PatternSuspicious(ss, session_key, t) ==
    LET activity_times == ActivityTimes(ss, session_key, t)
    IN  Len(activity_times) >= 5 /\ RapidGaps(SortedTimes(activity_times)) >= 3

\* SecurityMonitor.track_activity_pattern, the table after it
TrackActivityPattern(ss, session_key, t) ==
    IF session_key \notin DOMAIN ss THEN ss
    ELSE [ss EXCEPT ![session_key].activity_times = ActivityTimes(ss, session_key, t)]

\* ------------------------------------------------------------------------
\* auth/middlewares.py
\* ------------------------------------------------------------------------
\* lookups of a request that can raise (database error)
Faults == {"is_token_blacklisted", "check_session_valid", "validate_session",
           "validate_fingerprint"}
NoFault == "none"

\* the csrf_state value "<hex>" is <<nonce>>, "<hex>:<int>" is <<nonce, ts>>
CsrfHasTimestamp(v) == Len(v) = 2

\* a check_csrf that also looks the cookie up among the csrf_state values
\* stored in user_sessions
CheckCsrf_AgainstStored(method, path, csrf_from_cookie, csrf_from_header, t) ==
    IF method = "OPTIONS" THEN TRUE
    ELSE IF method \notin {"POST", "PUT", "DELETE", "PATCH"} THEN TRUE
    ELSE IF EndsWith(path, "login") \/ EndsWith(path, "register") THEN TRUE
    ELSE IF csrf_from_cookie = NoHash \/ csrf_from_header = NoHash THEN FALSE
    ELSE IF csrf_from_cookie # csrf_from_header THEN FALSE
    ELSE IF CsrfHasTimestamp(csrf_from_cookie) /\ t - csrf_from_cookie[2] > CSRF_MAX_AGE
    THEN FALSE
    ELSE \E k \in DOMAIN sessions : sessions[k].csrf_state = csrf_from_cookie

\* check_csrf: TRUE when the gate lets the request through, FALSE for a 403
CheckCsrf(method, path, csrf_from_cookie, csrf_from_header, t) ==
    IF method = "OPTIONS" THEN TRUE
    ELSE IF method \notin {"POST", "PUT", "DELETE", "PATCH"} THEN TRUE
    ELSE IF EndsWith(path, "login") \/ EndsWith(path, "register") THEN TRUE
    ELSE IF csrf_from_cookie = NoHash \/ csrf_from_header = NoHash THEN FALSE
    ELSE IF csrf_from_cookie # csrf_from_header THEN FALSE
    ELSE IF CsrfHasTimestamp(csrf_from_cookie) /\ t - csrf_from_cookie[2] > CSRF_MAX_AGE
    THEN FALSE
    ELSE TRUE

\* sensitive prefixes of check_if_token_revoked
RevocationSensitivePaths ==
    {<<"api", "admin">>, <<"api", "user", "update">>, <<"api", "settings", "token-settings">>}

\* is_token_blacklisted / check_session_valid as called by the loader, with
\* a lookup that may raise: both catch the exception themselves
\* the loader calling is_token_blacklisted(jti) without the user id
LoaderIsBlacklisted_NoUserId(bl, tok, fault) ==
    IF fault = "is_token_blacklisted" THEN FALSE ELSE HasJti(bl, tok.jti)
LoaderIsBlacklisted(bl, tok, fault) ==
    IF fault = "is_token_blacklisted" THEN IsTokenBlacklistedOnError
    ELSE IsTokenBlacklisted(bl, tok.jti, tok.sub)
LoaderSessionValid(ss, tok, path, t, fault) ==
    IF fault = "check_session_valid" THEN [ok |-> FALSE, ss |-> ss]
    ELSE CheckSessionValid(ss, tok.session_key, None, path, t)

\* check_if_token_revoked: [revoked, ss] = the verdict and user_sessions
\* after it.  validate_session does not catch; its exception reaches the
\* loader's except branch, which returns True.
CheckIfTokenRevoked(bl, ss, tok, path, fp, ip, ua, t, fault) ==
    LET current_fp_hash == IF fp # None THEN Sha256(fp) ELSE NoHash
        current_ip_net == GetIpNetworkHash(ip, ua)
        current_ua_hash == Hex16(Sha256(ua))
        is_blacklisted == LoaderIsBlacklisted(bl, tok, fault)
        csv == IF tok.session_key # NoId
               THEN LoaderSessionValid(ss, tok, path, t, fault)
               ELSE [ok |-> TRUE, ss |-> ss]
        session_invalid == tok.session_key # NoId /\ ~csv.ok
        session_user_mismatch ==
            tok.session_key # NoId /\ ~ValidateSession(csv.ss, tok.session_key, tok.sub)
        device_mismatch ==
            tok.fp_hash # NoHash /\ current_fp_hash # NoHash /\ tok.fp_hash # current_fp_hash
        network_mismatch ==
            /\ tok.ip_net # NoHash /\ current_ip_net # NoHash /\ tok.ip_net # current_ip_net
            /\ AnyStartsWith(path, RevocationSensitivePaths)
        ua_mismatch ==
            /\ tok.ua_hash # NoHash /\ tok.ua_hash # current_ua_hash
            /\ StartsWith(path, <<"api", "admin">>)
    IN  IF tok.session_key # NoId /\ fault = "validate_session"
        THEN [revoked |-> TRUE, ss |-> csv.ss]
        ELSE [revoked |-> \/ is_blacklisted \/ session_invalid \/ session_user_mismatch
                          \/ device_mismatch \/ network_mismatch \/ ua_mismatch,
              ss |-> csv.ss]

\* ------------------------------------------------------------------------
\* models/user.py
\* ------------------------------------------------------------------------
\* User.get_token_lifetime: the stored setting (the default row it inserts
\* holds JWT_ACCESS_TOKEN_EXPIRES)
GetTokenLifetime(st, user_id) == st[user_id][1]
\* User.get_refresh_token_lifetime: called by login and refresh, defined
\* nowhere in the sources; taken to read the stored refresh_token_lifetime
\* with JWT_REFRESH_TOKEN_EXPIRES as the default
GetRefreshTokenLifetime(st, user_id) == st[user_id][2]
\* is_user_blocked that finds no status row
IsUserBlocked_Never(bk, user_id) == FALSE
\* User.is_user_blocked
IsUserBlocked(bk, user_id) == user_id \in bk

\* ------------------------------------------------------------------------
\* Requests
\* ------------------------------------------------------------------------
\* headers of a request: X-Device-Fingerprint, client address, User-Agent
Clients ==
    { [fp |-> None, ip |-> <<10, 0, 0, 5>>, ua |-> "uaA"],
      [fp |-> "fpA", ip |-> <<10, 0, 0, 5>>, ua |-> "uaA"],
      [fp |-> "device_fingerprint", ip |-> <<10, 0, 1, 5>>, ua |-> "uaB"] }

\* secrets.token_hex(16) of the n-th draw
TokenHex(n) == <<"token_hex", n>>

\* a JWT as create_access_token / create_refresh_token build it
Token(type, sub, jti, session_key, fp_hash, ip_net, ua_hash, exp, created_at) ==
    [type |-> type, sub |-> sub, jti |-> jti, session_key |-> session_key,
     fp_hash |-> fp_hash, ip_net |-> ip_net, ua_hash |-> ua_hash,
     exp |-> exp, created_at |-> created_at]
NoTok == Token("none", NoId, Uuid4(0), NoId, NoHash, NoHash, NoHash, 0, <<>>)

\* the token pairs that refresh has issued so far
RefreshesDone == Cardinality({tok \in issued : tok.type = "refresh" /\ tok.created_at # <<>>})

\* a thread that serves no request
Idle == [pc |-> "idle", op |-> "none", tok |-> NoTok, fp |-> None, ip |-> NoHash,
         ua |-> None, life |-> <<>>, current_counter |-> 0]
\* the request record of a handler
Req(op, tok, c) ==
    [Idle EXCEPT !.pc = op, !.op = op, !.tok = tok, !.fp = c.fp, !.ip = c.ip,
                 !.ua = c.ua]

Free(t) == thr[t].pc = "idle"
\* the worker thread that takes the next request
Takes(t) == Free(t) /\ \A t2 \in Threads : t2 < t => ~Free(t2)
\* the request of thread t is answered and the thread is free again
Reply(t) == thr' = [thr EXCEPT ![t] = Idle]

\* The system is observed from the first login on: no session, token or
\* blacklist row exists before it.
Init ==
    /\ now = 0
    /\ ticks = 0
    /\ sessions = <<>>
    /\ blacklist = <<>>
    /\ settings = [u \in Users |-> <<JWT_ACCESS_TOKEN_EXPIRES, JWT_REFRESH_TOKEN_EXPIRES>>]
    /\ blocked = {}
    /\ issued = {}
    /\ cookies = {}
    /\ nextKey = 0
    /\ nextJti = 0
    /\ thr = [t \in Threads |-> Idle]

\* the wall clock advances by d seconds
Tick(d) ==
    /\ ticks < MaxTicks
    /\ nextKey > 0
    /\ now' = now + d
    /\ ticks' = ticks + 1
    /\ UNCHANGED <<sessions, blacklist, settings, blocked, issued, cookies, nextKey, nextJti, thr>>

\* routes/auth.py login, lines 33-50: validate_login_credentials answers
\* 401, is_user_blocked answers 403, both before any token or session row
\* is made.  valid says whether the body carries a user's own password.
LoginStatus(bk, user_id, valid) ==
    IF ~valid THEN "401"
    ELSE IF IsUserBlocked(bk, user_id) THEN "403"
    ELSE "200"

\* routes/auth.py login, the whole handler
LoginHandler(user_id, c, valid) ==
    /\ IF LoginStatus(blocked, user_id, valid) # "200"
       THEN UNCHANGED <<sessions, issued, cookies, nextKey, nextJti>>
       ELSE LET token_lifetime == GetTokenLifetime(settings, user_id)
                refresh_token_lifetime == GetRefreshTokenLifetime(settings, user_id)
                session_key == nextKey + 1
                csrf_state == <<TokenHex(nextJti + 1)>>
                fp_hash == IF c.fp # None THEN Sha256(c.fp) ELSE NoHash
                jti == Uuid4(nextJti + 1)
                ip_net == GetIpNetworkHash(c.ip, c.ua)
                ua_hash == Hex16(Sha256(c.ua))
            IN  /\ sessions' = CheckNetworkChange(
                       StoreSession(sessions, user_id, session_key, csrf_state, "active",
                                    IsoFormat(now + refresh_token_lifetime), c.fp, now),
                       session_key, c.ip, c.ua)
                /\ issued' = issued \cup
                       { Token("access", user_id, jti, session_key, fp_hash, ip_net,
                               ua_hash, now + token_lifetime, <<>>),
                         Token("refresh", user_id, jti, session_key, fp_hash, ip_net,
                               ua_hash, now + refresh_token_lifetime, <<>>) }
                /\ cookies' = cookies \cup {[val |-> csrf_state, born |-> now]}
                /\ nextKey' = nextKey + 1
                /\ nextJti' = nextJti + 1
    /\ UNCHANGED <<now, ticks, blacklist, settings, blocked, thr>>

\* POST /api/login with valid credentials
Login(user_id, c) ==
    /\ nextKey < MaxLogins
    /\ LoginHandler(user_id, c, TRUE)

\* the type of token the endpoint's jwt_required accepts
TokenTypeOf(op) == IF op = "refresh" THEN "refresh" ELSE "access"

\* csrf values the server never issued
ForgedCsrf == <<TokenHex(0)>>
OtherForgedCsrf == <<TokenHex(0), 0>>
\* the (cookie, header) pairs a client sends: one value in both, or
\* nothing, or one of the two missing, or two different values
CsrfPairs ==
    {<<c.val, c.val>> : c \in cookies}
    \cup {<<ForgedCsrf, ForgedCsrf>>, <<NoHash, NoHash>>, <<ForgedCsrf, NoHash>>,
          <<NoHash, ForgedCsrf>>, <<ForgedCsrf, OtherForgedCsrf>>}

\* the request for endpoint op carries a pair that check_csrf lets through
CsrfPasses(op) ==
    ~(\A p \in CsrfPairs : ~CheckCsrf(MethodOf(op), PathOf(op), p[1], p[2], now))

\* before_request: check_csrf answers 403.  (The other hooks read
\* get_jwt() before any token has been verified; the RuntimeError it raises
\* is swallowed by their except branches.)  Nothing is written.
CsrfRejected ==
    /\ ~(\A op \in Ops, p \in CsrfPairs :
            CheckCsrf(MethodOf(op), PathOf(op), p[1], p[2], now))
    /\ UNCHANGED vars

\* The endpoint's jwt_required on a request that presents tok: signature
\* and exp, then the token type, then the token_in_blocklist_loader
\* check_if_token_revoked, which runs only when the two earlier checks let
\* the token through.  [status, ss] = the answer and user_sessions after it.
JwtRequired(op, tok, c, fault) ==
    IF tok.exp <= now THEN [status |-> "401 expired", ss |-> sessions]
    ELSE IF tok.type # TokenTypeOf(op) THEN [status |-> "422 wrong type", ss |-> sessions]
    ELSE LET r == CheckIfTokenRevoked(blacklist, sessions, tok, PathOf(op),
                                      c.fp, c.ip, c.ua, now, fault)
         IN  [status |-> IF r.revoked THEN "401 revoked" ELSE "pass", ss |-> r.ss]
Gate(op, tok, c, fault) == JwtRequired(op, tok, c, fault).status
GateSessions(op, tok, c, fault) == JwtRequired(op, tok, c, fault).ss

\* a request for op that presents tok reaches the handler from some client
PassesSomewhere(op, tok, fault) ==
    CsrfPasses(op) /\ ~(\A c \in Clients : Gate(op, tok, c, fault) # "pass")

\* jwt_required turns a request away before the blocklist loader runs:
\* 401 for an expired token, 422 for one of the wrong type
Refused ==
    /\ ~(\A op \in {o \in Ops : CsrfPasses(o)}, tok \in issued, c \in Clients :
            Gate(op, tok, c, NoFault) \in {"401 revoked", "pass"})
    /\ UNCHANGED vars

\* the requests that check_if_token_revoked turns away
RevokedRequests(fault) ==
    {r \in {op \in Ops : CsrfPasses(op)} \X issued \X Clients :
        Gate(r[1], r[2], r[3], fault) = "401 revoked"}

\* check_if_token_revoked turns a request away: 401, the handler does not
\* run, and check_activity may have marked the session expired
Rejected(fault) ==
    /\ \E ss \in {GateSessions(r[1], r[2], r[3], fault) : r \in RevokedRequests(fault)} :
          sessions' = ss
    /\ UNCHANGED <<now, ticks, blacklist, settings, blocked, issued, cookies, nextKey,
                   nextJti, thr>>

\* check_session_valid / validate_fingerprint as a handler calls them, with
\* a lookup that may raise: both catch the exception and return False
HandlerSessionValid(ss, th, t, fault) ==
    IF fault = "check_session_valid" THEN [ok |-> FALSE, ss |-> ss]
    ELSE CheckSessionValid(ss, th.tok.session_key, None, PathOf(th.op), t)
HandlerFingerprintValid(ss, th, t, fault) ==
    IF fault = "validate_fingerprint" THEN ValidateFingerprintOnError
    ELSE ValidateFingerprint(ss, th.tok.session_key, th.fp, t)

\* POST /api/refresh passes jwt_required and enters its handler on thread t
RefreshBegin(t, tok, c, fault) ==
    /\ Takes(t)
    /\ CsrfPasses("refresh")
    /\ tok \in issued
    /\ LET g == JwtRequired("refresh", tok, c, fault)
       IN  g.status = "pass" /\ sessions' = g.ss
    /\ thr' = [thr EXCEPT ![t] = Req("refresh", tok, c)]
    /\ UNCHANGED <<now, ticks, blacklist, settings, blocked, issued, cookies, nextKey, nextJti>>

\* refresh, lines 178-216: the token's device binding, blacklist_token, the
\* lifetimes, check_session_valid, validate_fingerprint
RefreshValidate(t, fault) ==
    LET th == thr[t]
        csv == HandlerSessionValid(sessions, th, now, fault)
    IN
    /\ th.pc = "refresh"
    /\ IF th.tok.fp_hash # NoHash /\ th.fp # None /\ th.tok.fp_hash # Sha256(th.fp)
       THEN Reply(t) /\ UNCHANGED <<blacklist, sessions>>
       ELSE /\ blacklist' = BlacklistToken(blacklist, th.tok.jti, th.tok.sub, Epoch(th.tok.exp))
            /\ IF th.tok.session_key = NoId
               THEN Reply(t) /\ UNCHANGED sessions
               ELSE IF ~csv.ok
               THEN Reply(t) /\ sessions' = csv.ss
               ELSE IF th.fp # None /\ ~HandlerFingerprintValid(csv.ss, th, now, fault)
               THEN Reply(t) /\ sessions' = csv.ss
               ELSE /\ thr' = [thr EXCEPT
                                 ![t].pc = "refresh3",
                                 ![t].life = <<GetTokenLifetime(settings, th.tok.sub),
                                               GetRefreshTokenLifetime(settings, th.tok.sub)>>]
                    /\ sessions' = csv.ss
    /\ UNCHANGED <<now, ticks, settings, blocked, issued, cookies, nextKey, nextJti>>

\* refresh, lines 218-298: the new token pair, update_session with
\* state "active", the request counter and activity pattern, the cookies
RefreshIssue(t) ==
    LET th == thr[t]
        session_key == th.tok.session_key
        csrf_state == <<TokenHex(nextJti + 1), now>>
        fp_hash == IF th.fp # None THEN Sha256(th.fp) ELSE NoHash
        jti == Uuid4(nextJti + 1)
        ip_net == GetIpNetworkHash(th.ip, th.ua)
        ua_hash == Hex16(Sha256(th.ua))
    IN
    /\ th.pc = "refresh3"
    /\ RefreshesDone < MaxRefreshes
    /\ sessions' = TrackActivityPattern(
                     TrackRequestCounter(
                       UpdateSession(sessions, session_key, csrf_state, "active", th.fp),
                       session_key, now),
                     session_key, now)
    /\ issued' = issued \cup
           { Token("access", th.tok.sub, jti, session_key, fp_hash, ip_net, ua_hash,
                   now + th.life[1], <<now>>),
             Token("refresh", th.tok.sub, jti, session_key, fp_hash, ip_net, ua_hash,
                   now + th.life[2], <<now>>) }
    /\ cookies' = cookies \cup {[val |-> csrf_state, born |-> now]}
    /\ nextJti' = nextJti + 1
    /\ Reply(t)
    /\ UNCHANGED <<now, ticks, blacklist, settings, blocked, nextKey>>

\* routes/auth.py logout: delete_session, then blacklist_token
Logout(tok, fault) ==
    /\ PassesSomewhere("logout", tok, fault)
    /\ sessions' = IF tok.session_key # NoId
                   THEN DeleteSession(sessions, tok.session_key) ELSE sessions
    /\ blacklist' = BlacklistToken(blacklist, tok.jti, tok.sub, Epoch(tok.exp))
    /\ UNCHANGED <<now, ticks, settings, blocked, issued, cookies, nextKey, nextJti, thr>>

\* routes/auth.py get_current_user: reads the user row
Me(fault) ==
    /\ CsrfPasses("me")
    /\ ~(\A tok \in issued, c \in Clients : Gate("me", tok, c, fault) # "pass")
    /\ UNCHANGED vars

\* PUT /api/user/update passes jwt_required and enters its handler on thread t
UpdateBegin(t, tok, c, fault) ==
    /\ Takes(t)
    /\ CsrfPasses("update")
    /\ tok \in issued
    /\ LET g == JwtRequired("update", tok, c, fault)
       IN  g.status = "pass" /\ sessions' = g.ss
    /\ thr' = [thr EXCEPT ![t] = Req("update", tok, c)]
    /\ UNCHANGED <<now, ticks, blacklist, settings, blocked, issued, cookies, nextKey, nextJti>>

\* routes/user.py update_user_profile, with the current password supplied
\* and correct; password says whether the body carries a new password
UpdateUserProfile(t, password, fault) ==
    LET th == thr[t]
        session_key == th.tok.session_key
        csv == HandlerSessionValid(sessions, th, now, fault)
        monitored == TrackActivityPattern(
                       CheckNetworkChange(csv.ss, session_key, th.ip, th.ua),
                       session_key, now)
    IN
    /\ th.pc = "update"
    /\ Reply(t)
    /\ IF session_key # NoId /\ ~csv.ok
       THEN sessions' = csv.ss /\ UNCHANGED blacklist
       ELSE IF session_key # NoId /\ fault = "validate_session"
       THEN sessions' = csv.ss /\ UNCHANGED blacklist
       ELSE IF session_key # NoId /\ ~ValidateSession(csv.ss, session_key, th.tok.sub)
       THEN sessions' = csv.ss /\ UNCHANGED blacklist
       ELSE IF session_key # NoId /\ th.fp # None /\ ~HandlerFingerprintValid(csv.ss, th, now, fault)
       THEN sessions' = csv.ss /\ UNCHANGED blacklist
       ELSE /\ sessions' = IF session_key # NoId THEN monitored ELSE sessions
            /\ blacklist' = IF password THEN BlacklistUserTokens(blacklist, th.tok.sub, now)
                            ELSE blacklist
    /\ UNCHANGED <<now, ticks, settings, blocked, issued, cookies, nextKey, nextJti>>

\* update_user_profile, the status it answers for the request of thread t
UpdateStatus(ss, th, t, fault) ==
    LET session_key == th.tok.session_key
        csv == HandlerSessionValid(ss, th, t, fault)
    IN  IF session_key # NoId /\ ~csv.ok THEN "401"
        ELSE IF session_key # NoId /\ fault = "validate_session" THEN "500"
        ELSE IF session_key # NoId /\ ~ValidateSession(csv.ss, session_key, th.tok.sub) THEN "403"
        ELSE IF session_key # NoId /\ th.fp # None /\ ~HandlerFingerprintValid(csv.ss, th, t, fault)
        THEN "403"
        ELSE "200"

\* auth/__init__.py init_auth: the application starts (no request is in
\* flight) and sweeps both tables
InitAuth ==
    /\ \A t \in Threads : Free(t)
    /\ blacklist' = ClearExpiredTokens(blacklist, now)
    /\ sessions' = ClearExpired(sessions, now)
    /\ UNCHANGED <<thr, now, ticks, settings, blocked, issued, cookies, nextKey, nextJti>>

\* a request during which the lookups named by a fault raise
FaultyRequest ==
    \E f \in Faults :
       \/ Rejected(f)
       \/ \E t \in Threads, tok \in issued, c \in Clients : RefreshBegin(t, tok, c, f)
       \/ \E tok \in issued : Logout(tok, f)
       \/ Me(f)
       \/ \E t \in Threads, tok \in issued, c \in Clients : UpdateBegin(t, tok, c, f)
       \/ \E t \in Threads : RefreshValidate(t, f)
       \/ \E t \in Threads, password \in BOOLEAN : UpdateUserProfile(t, password, f)

Next ==
    \/ \E d \in TickSteps : Tick(d)
    \/ \E u \in Users, c \in Clients : Login(u, c)
    \/ CsrfRejected
    \/ Refused
    \/ Rejected(NoFault)
    \/ \E t \in Threads, tok \in issued, c \in Clients : RefreshBegin(t, tok, c, NoFault)
    \/ \E t \in Threads : RefreshValidate(t, NoFault)
    \/ \E t \in Threads : RefreshIssue(t)
    \/ \E tok \in issued : Logout(tok, NoFault)
    \/ Me(NoFault)
    \/ \E t \in Threads, tok \in issued, c \in Clients : UpdateBegin(t, tok, c, NoFault)
    \/ \E t \in Threads, password \in BOOLEAN : UpdateUserProfile(t, password, NoFault)
    \/ InitAuth

Spec == Init /\ [][Next]_vars

\* the requests of one login with database errors: a fault that the step
\* taken does not consult leaves the step as it is without errors
NextF ==
    \/ \E u \in Users, c \in Clients : Login(u, c)
    \/ FaultyRequest
    \/ \E t \in Threads : RefreshIssue(t)
SpecF == Init /\ [][NextF]_vars

\* ------------------------------------------------------------------------
\* before_request hooks that read the token (auth/middlewares.py)
\* ------------------------------------------------------------------------
\* get_jwt() inside an application-level before_request hook.  The hooks run
\* before the view and its jwt_required, no token has been verified for the
\* request yet, and get_jwt() raises RuntimeError: the hook has no jwt_data.
JwtDataInHook(tok) == None

\* check_user_blocked: the answer of the hook
CheckUserBlocked(bk, path, jwt_data) ==
    IF ~StartsWith(path, <<"api">>) \/ path = LoginPath \/ path = <<"api", "register">>
    THEN "pass"
    ELSE IF jwt_data = None THEN "pass"
    ELSE IF jwt_data.sub # NoId /\ IsUserBlocked(bk, jwt_data.sub) THEN "403"
    ELSE "pass"

\* the value check_network_change reads back as stored_hash: its query
\* selects the one column ip_network_hash, and `'ip_network_hash' in session`
\* looks for that text among the row's values, a digest or NULL
StoredNetworkHash(ss, session_key) == None

\* SecurityMonitor.check_network_change, the flag `changed` it returns
NetworkChanged(ss, session_key, ip, ua) ==
    LET stored_hash == StoredNetworkHash(ss, session_key)
    IN  /\ GetIpNetworkHash(ip, ua) # NoHash
        /\ session_key \in DOMAIN ss
        /\ stored_hash # None
        /\ stored_hash # GetIpNetworkHash(ip, ua)

\* sensitive prefixes of detect_network_changes
NetworkSensitivePaths ==
    {<<"api", "user", "update">>, <<"api", "settings", "token-settings">>, <<"api", "admin">>}

\* detect_network_changes: the answer of the hook
DetectNetworkChanges(ss, method, path, jwt_data, ip, ua) ==
    IF ~StartsWith(path, <<"api">>) \/ method \notin {"POST", "PUT", "DELETE", "PATCH"}
    THEN "pass"
    ELSE IF jwt_data = None THEN "pass"
    ELSE IF jwt_data.session_key = NoId THEN "pass"
    ELSE IF /\ NetworkChanged(ss, jwt_data.session_key, ip, ua)
            /\ AnyStartsWith(path, NetworkSensitivePaths)
    THEN "428"
    ELSE "pass"

\* SessionManager.update_activity: UPDATE ... SET last_activity = now
\* WHERE user_id = ?
UpdateActivity(ss, user_id, t) ==
    [k \in DOMAIN ss |->
        IF ss[k].user_id = user_id THEN [ss[k] EXCEPT !.last_activity = IsoFormat(t)]
        ELSE ss[k]]

\* update_session_activity: user_sessions after the hook
UpdateSessionActivity(ss, path, jwt_data, t) ==
    IF ~StartsWith(path, <<"api">>) THEN ss
    ELSE IF jwt_data = None THEN ss
    ELSE IF jwt_data.sub # NoId THEN UpdateActivity(ss, jwt_data.sub, t)
    ELSE ss

\* sensitive prefixes of analyze_request_patterns
PatternSensitivePaths == {<<"api", "user", "update">>, <<"api", "admin">>}

\* analyze_request_patterns: the answer of the hook.  Without jwt_data it
\* returns from its except branch before it tracks anything.
AnalyzeRequestPatterns(ss, method, path, jwt_data, t) ==
    IF ~StartsWith(path, <<"api">>) \/ method = "OPTIONS" THEN "pass"
    ELSE IF jwt_data = None THEN "pass"
    ELSE IF jwt_data.session_key = NoId \/ jwt_data.session_key \notin DOMAIN ss THEN "pass"
    ELSE IF /\ \/ CounterSuspicious(ss, jwt_data.session_key, t)
               \/ PatternSuspicious(ss, jwt_data.session_key, t)
            /\ AnyStartsWith(path, PatternSensitivePaths)
    THEN "428"
    ELSE "pass"

\* sensitive prefixes of validate_sensitive_operations
FingerprintSensitivePaths ==
    {<<"api", "user", "update">>, <<"api", "settings", "token-settings">>,
     <<"api", "admin", "users">>}

\* validate_sensitive_operations: the answer of the hook
ValidateSensitiveOperations(ss, method, path, jwt_data, device_fingerprint, t) ==
    IF method \notin {"POST", "PUT", "DELETE", "PATCH"} THEN "pass"
    ELSE IF ~AnyStartsWith(path, FingerprintSensitivePaths) THEN "pass"
    ELSE IF jwt_data = None THEN "pass"
    ELSE IF /\ jwt_data.session_key # NoId /\ device_fingerprint # None
            /\ ~ValidateFingerprint(ss, jwt_data.session_key, device_fingerprint, t)
    THEN "403"
    ELSE "pass"

\* rotate_csrf_tokens, line 150: the age in seconds after which a
\* timestamped csrf_state is replaced
CSRF_ROTATE_AGE == 300

\* rotate_csrf_tokens: [answer, ss]; n numbers the draw of token_hex.  When
\* it rotates, the hook returns the response that carries the new cookie,
\* and that response is the answer to the request.
RotateCsrfTokens(ss, method, path, csrf_state, jwt_data, t, n) ==
    IF ~StartsWith(path, <<"api">>) \/ method # "GET" THEN [answer |-> "pass", ss |-> ss]
    ELSE IF csrf_state = NoHash THEN [answer |-> "pass", ss |-> ss]
    ELSE IF ~(CsrfHasTimestamp(csrf_state) /\ t - csrf_state[2] > CSRF_ROTATE_AGE)
    THEN [answer |-> "pass", ss |-> ss]
    ELSE IF jwt_data = None THEN [answer |-> "pass", ss |-> ss]
    ELSE IF jwt_data.session_key = NoId THEN [answer |-> "pass", ss |-> ss]
    ELSE [answer |-> "200 rotated",
          ss |-> UpdateSession(ss, jwt_data.session_key, <<TokenHex(n), t>>, None, None)]

\* detect_network_changes gets as far as its call of check_network_change
CallsCheckNetworkChange(method, path, jwt_data) ==
    /\ StartsWith(path, <<"api">>) /\ method \in {"POST", "PUT", "DELETE", "PATCH"}
    /\ jwt_data # None
    /\ jwt_data.session_key # NoId

\* analyze_request_patterns gets as far as its calls of track_request_counter
\* and track_activity_pattern
CallsTrackers(method, path, jwt_data) ==
    /\ StartsWith(path, <<"api">>) /\ method # "OPTIONS"
    /\ jwt_data # None
    /\ jwt_data.session_key # NoId

\* the hooks with the activity touch, made with the token's subject, ahead
\* of the block check and the CSRF check
BeforeRequestHooks_TouchFirst(method, path, tok, c, csrf) ==
    [answer |-> IF ~CheckCsrf(method, path, csrf[1], csrf[2], now) THEN "403 csrf" ELSE "pass",
     ss |-> UpdateActivity(sessions, tok.sub, now)]

\* register_auth_middlewares: the hooks in the order of their registration
\* (check_user_blocked, check_csrf, rotate_csrf_tokens,
\* update_session_activity, detect_network_changes,
\* analyze_request_patterns, validate_sensitive_operations), up to the first
\* one that answers: [answer, ss] = that answer, or "pass", and
\* user_sessions as the hooks that ran leave it
BeforeRequestHooks(method, path, tok, c, csrf) ==
    LET jwt_data == JwtDataInHook(tok)
        rot == RotateCsrfTokens(sessions, method, path, csrf[1], jwt_data, now, nextJti + 1)
        touched == UpdateSessionActivity(rot.ss, path, jwt_data, now)
        net == DetectNetworkChanges(touched, method, path, jwt_data, c.ip, c.ua)
        checked == IF CallsCheckNetworkChange(method, path, jwt_data)
                   THEN CheckNetworkChange(touched, jwt_data.session_key, c.ip, c.ua)
                   ELSE touched
        pat == AnalyzeRequestPatterns(checked, method, path, jwt_data, now)
        tracked == IF CallsTrackers(method, path, jwt_data)
                   THEN TrackActivityPattern(
                            TrackRequestCounter(checked, jwt_data.session_key, now),
                            jwt_data.session_key, now)
                   ELSE checked
    IN  IF CheckUserBlocked(blocked, path, jwt_data) # "pass"
        THEN [answer |-> "403 blocked", ss |-> sessions]
        ELSE IF ~CheckCsrf(method, path, csrf[1], csrf[2], now)
        THEN [answer |-> "403 csrf", ss |-> sessions]
        ELSE IF rot.answer # "pass" THEN rot
        ELSE IF net # "pass" THEN [answer |-> "428", ss |-> checked]
        ELSE IF pat # "pass" THEN [answer |-> "428 suspicious", ss |-> tracked]
        ELSE IF ValidateSensitiveOperations(tracked, method, path, jwt_data, c.fp, now) # "pass"
        THEN [answer |-> "403 fingerprint", ss |-> tracked]
        ELSE [answer |-> "pass", ss |-> tracked]

\* the answer of the hooks to a request
BeforeRequest(method, path, tok, c, csrf) == BeforeRequestHooks(method, path, tok, c, csrf).answer

\* the answer to a request for endpoint op: a hook's, or jwt_required's, or
\* "handler" when the view function is entered
Answer(op, tok, c, csrf) ==
    LET b == BeforeRequest(MethodOf(op), PathOf(op), tok, c, csrf)
    IN  IF b # "pass" THEN b
        ELSE IF Gate(op, tok, c, NoFault) # "pass" THEN Gate(op, tok, c, NoFault)
        ELSE "handler"

\* ------------------------------------------------------------------------
\* Admin routes (routes/admin.py, services/security_validator.py)
\* ------------------------------------------------------------------------
\* User.is_admin
IsAdmin(user_id) == user_id = 1

\* methods of the routes of the admin blueprint
AdminMethods == {"GET", "POST", "PUT", "DELETE"}

\* verify_jwt_in_request() for an access token: [ok, ss]
VerifyJwtInRequest(ss, tok, path, c) ==
    IF tok.exp <= now \/ tok.type # "access" THEN [ok |-> FALSE, ss |-> ss]
    ELSE LET r == CheckIfTokenRevoked(blacklist, ss, tok, path, c.fp, c.ip, c.ua, now, NoFault)
         IN  [ok |-> ~r.revoked, ss |-> r.ss]

\* SecurityValidator.validate_request, lines 32-133: [status, ss].  Status
\* "monitor" stands for reaching line 135, where the rate, pattern and
\* hijacking checks decide.
ValidateRequest(ss, tok, c, method, path, csrf, required_level, admin_required) ==
    LET v == VerifyJwtInRequest(ss, tok, path, c)
        csv == CheckSessionValid(v.ss, tok.session_key, None, path, now)
        strict == required_level \in {"elevated", "high"}
    IN  IF ~v.ok THEN [status |-> "401", ss |-> v.ss]
        ELSE IF tok.sub = NoId \/ tok.session_key = NoId THEN [status |-> "401", ss |-> v.ss]
        ELSE IF admin_required /\ ~IsAdmin(tok.sub) THEN [status |-> "403", ss |-> v.ss]
        ELSE IF ~csv.ok THEN [status |-> "401", ss |-> csv.ss]
        ELSE IF ~ValidateSession(csv.ss, tok.session_key, tok.sub)
        THEN [status |-> "401", ss |-> csv.ss]
        ELSE IF (c.fp # None \/ strict) /\ c.fp = None THEN [status |-> "401", ss |-> csv.ss]
        ELSE IF (c.fp # None \/ strict) /\ ~ValidateFingerprint(csv.ss, tok.session_key, c.fp, now)
        THEN [status |-> "403", ss |-> csv.ss]
        ELSE IF method \in {"POST", "PUT", "DELETE", "PATCH"}
                /\ (csrf[1] = NoHash \/ csrf[2] = NoHash \/ csrf[1] # csrf[2])
        THEN [status |-> "403", ss |-> csv.ss]
        ELSE IF strict /\ tok.fp_hash # NoHash /\ c.fp # None /\ tok.fp_hash # Sha256(c.fp)
        THEN [status |-> "403", ss |-> csv.ss]
        ELSE IF /\ required_level = "high" /\ tok.ip_net # NoHash /\ c.ip # NoHash
                /\ tok.ip_net # GetIpNetworkHash(c.ip, c.ua)
        THEN [status |-> "403", ss |-> csv.ss]
        ELSE IF /\ required_level = "high" /\ tok.ua_hash # NoHash
                /\ tok.ua_hash # Hex16(Sha256(c.ua))
        THEN [status |-> "403", ss |-> csv.ss]
        ELSE [status |-> IF strict THEN "monitor" ELSE "pass", ss |-> csv.ss]

\* SecurityValidator.validate_admin_access
ValidateAdminAccess(ss, tok, c, method, path, csrf) ==
    ValidateRequest(ss, tok, c, method, path, csrf, "high", TRUE)

\* admin_security_check, the before_request hook of the admin blueprint:
\* [status, ss]
AdminSecurityCheck(ss, tok, c, method, path, csrf) ==
    LET v == VerifyJwtInRequest(ss, tok, path, c)
    IN  IF ~v.ok THEN [status |-> "401", ss |-> v.ss]
        ELSE ValidateAdminAccess(v.ss, tok, c, method, path, csrf)

\* a request to a route of the admin blueprint, up to the monitor checks:
\* the application's hooks, then admin_security_check.  admin_required and
\* the view come after a status "monitor" only.
AdminRequest(tok, c, method, csrf) ==
    LET b == BeforeRequest(method, AdminPath, tok, c, csrf)
    IN  IF b # "pass" THEN [status |-> b, ss |-> sessions]
        ELSE AdminSecurityCheck(sessions, tok, c, method, AdminPath, csrf)

\* a request to an admin route is turned away: the session table after it
AdminRejected ==
    /\ \E ss \in {AdminRequest(tok, c, method, p).ss :
                    tok \in issued, c \in Clients, method \in AdminMethods, p \in CsrfPairs} :
          sessions' = ss
    /\ UNCHANGED <<now, ticks, blacklist, settings, blocked, issued, cookies, nextKey,
                   nextJti, thr>>

\* admin_required, line 87: the largest token age, in seconds, that a
\* state-changing admin operation accepts
FRESH_TOKEN_AGE == 900

\* admin_required, lines 83-87: token_age > 900, where token_age is
\* int(time.time()) - jwt_data.get('created_at', 0).  A token without the
\* claim has age int(time.time()), the seconds since 1970.
TokenTooOld(tok, t) ==
    IF tok.created_at = <<>> THEN TRUE ELSE t - tok.created_at[1] > FRESH_TOKEN_AGE

\* the wrapper of admin_required around a view: [status, ss]; status "view"
\* stands for calling the view
AdminRequired(ss, tok, c, method, path, csrf) ==
    LET v == VerifyJwtInRequest(ss, tok, path, c)
        a == ValidateAdminAccess(v.ss, tok, c, method, path, csrf)
    IN  IF ~v.ok THEN [status |-> "401", ss |-> v.ss]
        ELSE IF ~IsAdmin(tok.sub) THEN [status |-> "403", ss |-> v.ss]
        ELSE IF TokenTooOld(tok, now) /\ method \in {"POST", "PUT", "DELETE", "PATCH"}
        THEN [status |-> "401 FRESH_TOKEN_REQUIRED", ss |-> v.ss]
        ELSE IF a.status = "monitor" THEN [status |-> "view", ss |-> a.ss]
        ELSE a

\* sensitive prefixes of perform_comprehensive_checks
RiskSensitivePaths == {<<"api", "user", "update">>, <<"api", "settings">>, <<"api", "admin">>}

\* SecurityMonitor.perform_comprehensive_checks on an existing session:
\* track_request_counter, check_network_change, track_activity_pattern,
\* each on the table the one before left: [suspicious_activity,
\* risk_level, ss]
PerformComprehensiveChecks(ss, session_key, ip, ua, path, t) ==
    LET suspicious_counter == CounterSuspicious(ss, session_key, t)
        counted == TrackRequestCounter(ss, session_key, t)
        network_changed == ip # NoHash /\ NetworkChanged(counted, session_key, ip, ua)
        checked == IF ip # NoHash THEN CheckNetworkChange(counted, session_key, ip, ua)
                   ELSE counted
        suspicious_pattern == PatternSuspicious(checked, session_key, t)
        risk0 == IF suspicious_counter THEN "medium" ELSE "low"
        risk1 == IF network_changed THEN "high" ELSE risk0
        risk2 == IF ~suspicious_pattern THEN risk1
                 ELSE IF risk1 # "low" THEN "high" ELSE "medium"
    IN  [suspicious_activity |-> suspicious_counter \/ suspicious_pattern,
         risk_level |-> IF AnyStartsWith(path, RiskSensitivePaths) /\ risk2 # "low"
                        THEN "high" ELSE risk2,
         ss |-> TrackActivityPattern(checked, session_key, t)]

\* ------------------------------------------------------------------------
\* PUT /api/settings/token-settings (routes/auth.py)
\* ------------------------------------------------------------------------
MaxSettings == 1
\* values of token_lifetime and of refresh_token_lifetime in the body
TokenLifetimes == {299, 600}
RefreshTokenLifetimes == {86399, 172800}

\* the token pairs that update_token_settings has issued so far
SettingsDone ==
    Cardinality({tok \in issued : tok.type = "refresh" /\ tok.session_key = NoId})

\* User.update_token_settings, the table after it
UpdateTokenSettingsRows(st, user_id, token_lifetime, refresh_token_lifetime) ==
    [st EXCEPT ![user_id] = <<token_lifetime, refresh_token_lifetime>>]

\* routes/auth.py update_token_settings, the whole request
UpdateTokenSettings(tok, c, token_lifetime, refresh_token_lifetime) ==
    LET g == JwtRequired("settings", tok, c, NoFault)
    IN
    /\ SettingsDone < MaxSettings
    /\ CsrfPasses("settings")
    /\ tok \in issued
    /\ g.status = "pass"
    /\ sessions' = g.ss
    /\ IF \/ token_lifetime < 300 \/ token_lifetime > 86400
          \/ refresh_token_lifetime < 86400 \/ refresh_token_lifetime > 2592000
       THEN UNCHANGED <<settings, issued, nextJti>>
       ELSE /\ settings' = UpdateTokenSettingsRows(settings, tok.sub, token_lifetime,
                                                   refresh_token_lifetime)
            /\ issued' = issued \cup
                  { Token("access", tok.sub, Uuid4(nextJti + 1), NoId, NoHash, NoHash,
                          NoHash, now + token_lifetime, <<>>),
                    Token("refresh", tok.sub, Uuid4(nextJti + 2), NoId, NoHash, NoHash,
                          NoHash, now + refresh_token_lifetime, <<>>) }
            /\ nextJti' = nextJti + 2
    /\ UNCHANGED <<now, ticks, blacklist, blocked, cookies, nextKey, thr>>

NextSettings ==
    \/ \E d \in TickSteps : Tick(d)
    \/ \E u \in Users, c \in Clients : Login(u, c)
    \/ \E tok \in issued, c \in Clients, tl \in TokenLifetimes, rtl \in RefreshTokenLifetimes :
          UpdateTokenSettings(tok, c, tl, rtl)
    \/ AdminRejected
    \/ Rejected(NoFault)
    \/ \E tok \in issued : Logout(tok, NoFault)
SpecSettings == Init /\ [][NextSettings]_vars

\* ------------------------------------------------------------------------
\* A session that moves to another network
\* ------------------------------------------------------------------------
\* the clients, and one more that sends no fingerprint from the second network
NetworkClients ==
    Clients \cup { [fp |-> None, ip |-> <<10, 0, 1, 5>>, ua |-> "uaB"] }

NextNetwork ==
    \/ \E u \in Users, c \in NetworkClients : Login(u, c)
    \/ \E t \in Threads, tok \in issued, c \in NetworkClients : RefreshBegin(t, tok, c, NoFault)
    \/ \E t \in Threads : RefreshValidate(t, NoFault)
    \/ \E t \in Threads : RefreshIssue(t)
    \/ \E t \in Threads, tok \in issued, c \in NetworkClients : UpdateBegin(t, tok, c, NoFault)
    \/ \E t \in Threads, password \in BOOLEAN : UpdateUserProfile(t, password, NoFault)
SpecNetwork == Init /\ [][NextNetwork]_vars

\* ------------------------------------------------------------------------
\* Refreshes that interleave inside track_request_counter
\* ------------------------------------------------------------------------
\* refreshes served in a run
MaxCounterCalls == 3

\* refresh, lines 218-267, up to the SELECT of track_request_counter: the
\* new token pair, update_session, and the counter value read
RefreshIssueRead(t) ==
    LET th == thr[t]
        session_key == th.tok.session_key
        csrf_state == <<TokenHex(nextJti + 1), now>>
        fp_hash == IF th.fp # None THEN Sha256(th.fp) ELSE NoHash
        jti == Uuid4(nextJti + 1)
        ip_net == GetIpNetworkHash(th.ip, th.ua)
        ua_hash == Hex16(Sha256(th.ua))
        updated == UpdateSession(sessions, session_key, csrf_state, "active", th.fp)
    IN
    /\ th.pc = "refresh3"
    /\ RefreshesDone < MaxCounterCalls
    /\ sessions' = updated
    /\ issued' = issued \cup
           { Token("access", th.tok.sub, jti, session_key, fp_hash, ip_net, ua_hash,
                   now + th.life[1], <<now>>),
             Token("refresh", th.tok.sub, jti, session_key, fp_hash, ip_net, ua_hash,
                   now + th.life[2], <<now>>) }
    /\ cookies' = cookies \cup {[val |-> csrf_state, born |-> now]}
    /\ nextJti' = nextJti + 1
    /\ IF session_key \in DOMAIN updated
       THEN thr' = [thr EXCEPT ![t].pc = "refresh4",
                               ![t].current_counter = ReadRequestCounter(updated, session_key)]
       ELSE thr' = [thr EXCEPT ![t].pc = "refresh5"]
    /\ UNCHANGED <<now, ticks, blacklist, settings, blocked, nextKey>>

\* refresh, lines 267-298: the UPDATE of track_request_counter (skipped
\* when its SELECT found no row), track_activity_pattern, the response
RefreshIssueWrite(t) ==
    LET th == thr[t]
        session_key == th.tok.session_key
    IN
    /\ th.pc \in {"refresh4", "refresh5"}
    /\ sessions' = TrackActivityPattern(
                     IF th.pc = "refresh4"
                     THEN WriteRequestCounter(sessions, session_key, th.current_counter, now)
                     ELSE sessions,
                     session_key, now)
    /\ Reply(t)
    /\ UNCHANGED <<now, ticks, blacklist, settings, blocked, issued, cookies, nextKey, nextJti>>

\* the client of the runs of SpecCounter
CounterClients == {c \in Clients : c.fp = None}

NextCounter ==
    \/ \E u \in Users, c \in CounterClients : Login(u, c)
    \/ \E t \in Threads, tok \in issued, c \in CounterClients : RefreshBegin(t, tok, c, NoFault)
    \/ \E t \in Threads : RefreshValidate(t, NoFault)
    \/ \E t \in Threads : RefreshIssueRead(t)
    \/ \E t \in Threads : RefreshIssueWrite(t)
SpecCounter == Init /\ [][NextCounter]_vars

\* ------------------------------------------------------------------------
\* A session that is refreshed and then left idle
\* ------------------------------------------------------------------------
\* clock steps of a run
MaxIdleTicks == 2
\* one second, the time from then to the expiry of a session row that
\* login wrote with the default refresh_token_lifetime, and the first age
\* at which rotate_csrf_tokens replaces a csrf_state
IdleSteps == {1, JWT_REFRESH_TOKEN_EXPIRES - 1, CSRF_ROTATE_AGE + 1}

\* the wall clock advances by d seconds
IdleTick(d) ==
    /\ ticks < MaxIdleTicks
    /\ nextKey > 0
    /\ now' = now + d
    /\ ticks' = ticks + 1
    /\ UNCHANGED <<sessions, blacklist, settings, blocked, issued, cookies, nextKey, nextJti, thr>>

NextIdle ==
    \/ \E u \in Users, c \in CounterClients : Login(u, c)
    \/ \E d \in IdleSteps : IdleTick(d)
    \/ \E t \in Threads, tok \in issued, c \in CounterClients : RefreshBegin(t, tok, c, NoFault)
    \/ \E t \in Threads : RefreshValidate(t, NoFault)
    \/ \E t \in Threads : RefreshIssue(t)
    \/ Rejected(NoFault)
SpecIdle == Init /\ [][NextIdle]_vars

\* ------------------------------------------------------------------------
\* Accounts: logins with good and bad credentials, and the user_status table
\* ------------------------------------------------------------------------
\* POST /api/login, any credentials
LoginAttempt(user_id, c, valid) ==
    /\ nextKey < MaxSessions
    /\ LoginHandler(user_id, c, valid)

\* User.toggle_user_block, the table after it; the ValueError for user 1
\* leaves it as it is
ToggleUserBlockRows(bk, user_id, blocked_status) ==
    IF user_id = 1 THEN bk
    ELSE IF blocked_status THEN bk \cup {user_id}
    ELSE bk \ {user_id}

\* routes/admin.py toggle_user_block, the view function: User.toggle_user_block
\* and the answer, nothing else.  The view stands behind admin_security_check,
\* which lets no request through (AdminViewsUnreachable); the step is the
\* write to user_status as the view, or any other caller of
\* User.toggle_user_block, performs it.
ToggleUserBlock(user_id, blocked_status) ==
    /\ blocked' = ToggleUserBlockRows(blocked, user_id, blocked_status)
    /\ UNCHANGED <<now, ticks, sessions, blacklist, settings, issued, cookies, nextKey,
                   nextJti, thr>>

NextAccounts ==
    \/ \E d \in TickSteps : Tick(d)
    \/ \E u \in Users, c \in Clients, valid \in BOOLEAN : LoginAttempt(u, c, valid)
    \/ \E u \in Users, b \in BOOLEAN : ToggleUserBlock(u, b)
SpecAccounts == Init /\ [][NextAccounts]_vars

\* ------------------------------------------------------------------------
\* A user who logs in again after all their tokens were blacklisted
\* ------------------------------------------------------------------------
MaxReloginTicks == 3
ReloginSteps == {1, SENTINEL_LIFETIME + 1}

\* the wall clock advances, up to past the expiry of a sentinel
ReloginTick(d) ==
    /\ ticks < MaxReloginTicks
    /\ nextKey > 0
    /\ now' = now + d
    /\ ticks' = ticks + 1
    /\ UNCHANGED <<sessions, blacklist, settings, blocked, issued, cookies, nextKey, nextJti, thr>>

\* routes/admin.py terminate_user_sessions, the view function for a target
\* other than the admin: 404 when the target has no active session, else
\* delete_session for each of them and blacklist_user_tokens.  The view
\* stands behind admin_security_check (AdminViewsUnreachable); the step is
\* what the view's body performs.
TerminateUserSessions(target_user_id) ==
    LET session_keys == {k \in DOMAIN sessions :
                            /\ sessions[k].user_id = target_user_id
                            /\ sessions[k].state = "active"}
    IN  /\ session_keys # {}
        /\ sessions' = [k \in DOMAIN sessions \ session_keys |-> sessions[k]]
        /\ blacklist' = BlacklistUserTokens(blacklist, target_user_id, now)
        /\ UNCHANGED <<now, ticks, settings, blocked, issued, cookies, nextKey, nextJti, thr>>

NextRelogin ==
    \/ \E d \in ReloginSteps : ReloginTick(d)
    \/ \E c \in CounterClients : LoginAttempt(2, c, TRUE)
    \/ \E t \in Threads, tok \in issued, c \in CounterClients : UpdateBegin(t, tok, c, NoFault)
    \/ \E t \in Threads, password \in BOOLEAN : UpdateUserProfile(t, password, NoFault)
    \/ TerminateUserSessions(2)
    \/ Rejected(NoFault)
    \/ Me(NoFault)
    \/ InitAuth
SpecRelogin == Init /\ [][NextRelogin]_vars

\* ------------------------------------------------------------------------
\* Properties
\* ------------------------------------------------------------------------
\* jti values: those drawn so far or later, and one that is never drawn
Jtis == {Uuid4(n) : n \in 0..(MaxLogins + MaxRefreshes)}
\* session keys: those drawn so far or later, and one that is never drawn
SessionKeys == 1..(MaxLogins + 1)
\* the rows of the sentinel of user u
Sentinels(bl, u) == RowsWithJti(bl, SentinelJti(u))
MutatingMethods == {"POST", "PUT", "DELETE", "PATCH"}

\* the refresh tokens that a completed POST /api/refresh has consumed: the
\* token is blacklisted and a later pair exists for its session
UsedRefreshTokens ==
    {tok \in issued :
        /\ tok.type = "refresh"
        /\ IsTokenBlacklisted(blacklist, tok.jti, tok.sub)
        /\ \E n \in issued : /\ n.created_at # <<>>
                             /\ n.session_key = tok.session_key
                             /\ n.jti.id > tok.jti.id}

\* C1: a refresh token that a POST /api/refresh has consumed and
\* blacklisted is not let through jwt_required by a later POST /api/refresh:
\* the second presentation reaches no handler and issues nothing
C1_UsedRefreshTokenStaysRevoked ==
    [][\A tok \in UsedRefreshTokens, c \in Clients :
          JwtRequired("refresh", tok, c, NoFault)'.status # "pass"]_vars

\* C2: blacklist_user_tokens(u) leaves exactly one sentinel row, with expiry
\* now + 1 year, on every table including one that holds a sentinel
\* already; while a sentinel row of u exists is_token_blacklisted(j, u) is
\* True for every jti j; and a sentinel row disappears only in the expiry
\* sweep, after its expiry
C2_SentinelDominance ==
    [][\A u \in Users :
          /\ LET b == BlacklistUserTokens(blacklist', u, now')
             IN  /\ Cardinality(Sentinels(b, u)) = 1
                 /\ \A i \in Sentinels(b, u) :
                       b[i].expires_at = IsoFormat(now' + SENTINEL_LIFETIME)
                 /\ \A j \in Jtis : IsTokenBlacklisted(b, j, u)
          /\ Cardinality(Sentinels(blacklist', u)) <= 1
          /\ Sentinels(blacklist', u) # {}
                => \A j \in Jtis : IsTokenBlacklisted(blacklist', j, u)
          /\ (Sentinels(blacklist, u) # {} /\ Sentinels(blacklist', u) = {})
                => /\ blacklist' = ClearExpiredTokens(blacklist, now)
                   /\ \A i \in Sentinels(blacklist, u) :
                         FromIso(blacklist[i].expires_at) < now]_vars
\* a sentinel of u exists while a profile update of u that passed
\* jwt_required before it is about to call blacklist_user_tokens(u) again
C2_Witness ==
    \E u \in Users, t \in Threads :
       /\ Sentinels(blacklist, u) # {}
       /\ thr[t].pc = "update"
       /\ thr[t].tok.sub = u

\* C3: blacklist_token called twice with one jti: after each call
\* is_token_blacklisted(jti) is True, the table holds exactly one row for
\* the jti, and the second call leaves the table as the first left it
C3_BlacklistTokenIdempotent ==
    \A jti \in Jtis, u \in Users, exp \in {JWT_ACCESS_TOKEN_EXPIRES, now + JWT_REFRESH_TOKEN_EXPIRES} :
       LET b1 == BlacklistToken(blacklist, jti, u, Epoch(exp))
           b2 == BlacklistToken(b1, jti, u, Epoch(exp))
       IN  /\ IsTokenBlacklisted(b1, jti, NoId)
           /\ IsTokenBlacklisted(b2, jti, NoId)
           /\ Cardinality(RowsWithJti(b1, jti)) = 1
           /\ b2 = b1
\* two refresh requests that presented the same token have both called
\* blacklist_token with its jti, and the table holds one row for it
C3_Witness ==
    /\ \A t \in Threads : thr[t].pc = "refresh3"
    /\ \A t1, t2 \in Threads : thr[t1].tok.jti = thr[t2].tok.jti
    /\ \A t \in Threads : Cardinality(RowsWithJti(blacklist, thr[t].tok.jti)) = 1

\* the conditions under which C4 says a token is rejected
C4SessionBad(tok) ==
    /\ tok.session_key # NoId
    /\ \/ tok.session_key \notin DOMAIN sessions
       \/ sessions[tok.session_key].state # "active"
       \/ FromIso(sessions[tok.session_key].expires_at) <= now
       \/ now - FromIso(sessions[tok.session_key].last_activity) > MAX_INACTIVITY
       \/ sessions[tok.session_key].user_id # tok.sub
C4Rejects(tok, path, c) ==
    \/ IsTokenBlacklisted(blacklist, tok.jti, tok.sub)
    \/ C4SessionBad(tok)
    \/ (c.fp # None /\ tok.fp_hash # NoHash /\ Sha256(c.fp) # tok.fp_hash)
    \/ (AnyStartsWith(path, RevocationSensitivePaths)
          /\ tok.ip_net # NoHash /\ GetIpNetworkHash(c.ip, c.ua) # tok.ip_net)
    \/ (StartsWith(path, <<"api", "admin">>)
          /\ tok.ua_hash # NoHash /\ Hex16(Sha256(c.ua)) # tok.ua_hash)

\* C4: check_if_token_revoked rejects a token exactly when it is
\* blacklisted or sentinel-revoked, its session is missing, not active,
\* past expires_at, inactive or another user's, the request's fingerprint
\* hash differs from fp_hash, the network hash differs on a sensitive path,
\* or the user-agent hash differs on an admin path
C4_RevocationCheckExact ==
    \A tok \in issued, path \in Paths, c \in Clients :
       CheckIfTokenRevoked(blacklist, sessions, tok, path, c.fp, c.ip, c.ua, now,
                           NoFault).revoked
          <=> C4Rejects(tok, path, c)

\* C5: when a lookup of the revocation check raises, the token is treated
\* as revoked
C5_RevocationCheckFailsClosed ==
    \A tok \in issued, path \in Paths, c \in Clients,
       f \in {"is_token_blacklisted", "check_session_valid", "validate_session"} :
       CheckIfTokenRevoked(blacklist, sessions, tok, path, c.fp, c.ip, c.ua, now,
                           f).revoked

\* C6: validate_fingerprint returns False for every supplied fingerprint
\* when the session does not exist, is not active, is past expires_at, has
\* no stored fingerprint, or the lookup raises
C6_FingerprintFailsClosed ==
    /\ \A key \in SessionKeys, fp \in Fingerprints :
          (\/ key \notin DOMAIN sessions
           \/ sessions[key].state # "active"
           \/ FromIso(sessions[key].expires_at) < now
           \/ sessions[key].device_fingerprint = None)
             => ~ValidateFingerprint(sessions, key, fp, now)
    /\ ~ValidateFingerprintOnError
\* a refresh request that supplies a fingerprint is about to call
\* validate_fingerprint on a live session stored without one
C6_Witness ==
    \E t \in Threads :
       /\ thr[t].pc = "refresh"
       /\ thr[t].fp # None
       /\ thr[t].tok.session_key \in DOMAIN sessions
       /\ sessions[thr[t].tok.session_key].state = "active"
       /\ sessions[thr[t].tok.session_key].device_fingerprint = None

\* C7: on a session that is active, not past expires_at and stored with
\* fingerprint F, validate_fingerprint(fp) is True exactly when fp = F
C7_FingerprintExactMatch ==
    \A key \in DOMAIN sessions, fp \in Fingerprints :
       (/\ sessions[key].state = "active"
        /\ ~(FromIso(sessions[key].expires_at) < now)
        /\ sessions[key].device_fingerprint # None)
          => (ValidateFingerprint(sessions, key, fp, now)
                <=> fp = sessions[key].device_fingerprint)

\* C8: on a mutating request to a path other than login, check_csrf lets a
\* csrf_state value issued by the server through exactly when it is at most
\* 24 hours old, and lets no absent or mismatching pair through
C8_CsrfGateExact ==
    \A method \in MutatingMethods, path \in Paths \ {LoginPath} :
       /\ \A c \in cookies :
             CheckCsrf(method, path, c.val, c.val, now) <=> now - c.born <= CSRF_MAX_AGE
       /\ \A p \in CsrfPairs :
             (p[1] = NoHash \/ p[2] = NoHash \/ p[1] # p[2])
                => ~CheckCsrf(method, path, p[1], p[2], now)

\* C9: on an active session idle for more than MAX_INACTIVITY, check_activity
\* and check_session_valid return False and leave the state "expired", and
\* validate_session and check_session_valid return False afterwards; on one
\* idle for at most MAX_INACTIVITY check_activity returns True and leaves
\* the state "active"
C9_InactivityExpiry ==
    \A key \in DOMAIN sessions, path \in Paths :
       LET a == CheckActivity(sessions, key, now)
           r == CheckSessionValid(sessions, key, None, path, now)
       IN  sessions[key].state = "active" =>
              IF now - FromIso(sessions[key].last_activity) > MAX_INACTIVITY
              THEN /\ ~a.ok /\ a.ss[key].state = "expired"
                   /\ ~r.ok /\ r.ss[key].state = "expired"
                   /\ ~ValidateSession(r.ss, key, sessions[key].user_id)
                   /\ ~CheckSessionValid(r.ss, key, None, path, now).ok
              ELSE a.ok /\ a.ss[key].state = "active"

\* C10: no step of any request changes the state of a session row from
\* "expired" to "active"
C10_NoExpiredToActive ==
    [][\A key \in DOMAIN sessions :
          (sessions[key].state = "expired" /\ key \in DOMAIN sessions')
             => sessions'[key].state # "active"]_vars

\* the tokens a step adds
NewTokens == issued' \ issued

\* C11: a login that succeeds (the one step that draws a session key) adds
\* exactly one access token and one refresh token, both of one user and
\* naming the new key, and exactly one session row: its key was not in use,
\* its state is 'active', its request_counter is 0, it belongs to that
\* user; every row that existed is left as it was.
C11_LoginCreatesOneSession ==
    [][nextKey' # nextKey =>
        /\ nextKey' \notin DOMAIN sessions
        /\ DOMAIN sessions' = DOMAIN sessions \cup {nextKey'}
        /\ sessions'[nextKey'].state = "active"
        /\ sessions'[nextKey'].request_counter = 0
        /\ \A k \in DOMAIN sessions : sessions'[k] = sessions[k]
        /\ Cardinality({tok \in NewTokens : tok.type = "access"}) = 1
        /\ Cardinality({tok \in NewTokens : tok.type = "refresh"}) = 1
        /\ Cardinality(NewTokens) = 2
        /\ \A tok \in NewTokens :
              /\ tok.session_key = nextKey'
              /\ tok.sub = sessions'[nextKey'].user_id
              /\ LoginStatus(blocked, tok.sub, TRUE) = "200"]_vars

\* a second login has succeeded while the row of the first one exists
C11_Witness ==
    /\ nextKey = 2
    /\ Cardinality(DOMAIN sessions) = 2
    /\ \E k \in DOMAIN sessions : sessions[k].ip_network_hash # NoHash

\* C12: a login for a blocked user is answered 403 and a login with invalid
\* credentials 401; either one issues no token and leaves user_sessions and
\* token_blacklist as they were.
C12_RefusedLoginHasNoEffect ==
    [][\A u \in Users, c \in Clients, valid \in BOOLEAN :
          (LoginAttempt(u, c, valid) /\ (u \in blocked \/ ~valid)) =>
              /\ LoginStatus(blocked, u, valid) = (IF valid THEN "403" ELSE "401")
              /\ UNCHANGED <<sessions, blacklist, issued>>]_vars

\* a user who holds a session and tokens has been blocked, and the login
\* endpoint still takes requests
C12_Witness ==
    /\ nextKey < MaxSessions
    /\ \E u \in blocked :
          /\ \E k \in DOMAIN sessions : sessions[k].user_id = u
          /\ \E tok \in issued : tok.sub = u

\* the answers that carry status 403
Forbidden == {"403", "403 csrf", "403 blocked"}

\* C13: a request to an admin route, by any method, that presents a token
\* which jwt verification accepts and whose subject is not user 1 is
\* answered 403 (and so does not reach admin_required or the view).
C13_NonAdminForbidden ==
    \A tok \in issued, c \in Clients, method \in AdminMethods, p \in CsrfPairs :
        (~IsAdmin(tok.sub) /\ VerifyJwtInRequest(sessions, tok, AdminPath, c).ok) =>
            AdminRequest(tok, c, method, p).status \in Forbidden

\* no request to an admin route, from any user, gets as far as the monitor
\* checks, admin_required or a view
AdminViewsUnreachable ==
    \A tok \in issued, c \in Clients, method \in AdminMethods, p \in CsrfPairs :
        AdminRequest(tok, c, method, p).status \notin {"monitor", "pass"}

\* state-changing endpoints on the sensitive paths
SensitiveWrites == {"update", "settings"}

\* C14: a state-changing request to a sensitive path that passes the CSRF
\* gate and presents a token jwt_required accepts, on a session whose stored
\* ip_network_hash differs from the hash of the request, is answered 428 (and
\* does not reach the handler).
C14_NetworkChangeRequiresReverify ==
    \A op \in SensitiveWrites, tok \in issued, c \in NetworkClients, p \in CsrfPairs :
        ( /\ tok.session_key \in DOMAIN sessions
          /\ sessions[tok.session_key].ip_network_hash # GetIpNetworkHash(c.ip, c.ua)
          /\ CheckCsrf(MethodOf(op), PathOf(op), p[1], p[2], now)
          /\ Gate(op, tok, c, NoFault) = "pass" )
        => Answer(op, tok, c, p) = "428"

\* C15: every token that a step issues (login, refresh, the token-settings
\* update) carries a session_key that names a row of user_sessions, and the
\* row belongs to the token's subject.
C15_IssuedTokensNameSession ==
    [][\A tok \in NewTokens :
          /\ tok.session_key \in DOMAIN sessions'
          /\ sessions'[tok.session_key].user_id = tok.sub]_vars

\* C16: no two issued tokens have the same jti; the access token and the
\* refresh token of one pair are two such tokens.
C16_JtiUnique ==
    \A a \in issued, b \in issued : a # b => a.jti # b.jti

\* a step in which refresh issues its token pair: the only step that draws
\* a jti without drawing a session key
RefreshIssued == nextJti' # nextJti /\ nextKey' = nextKey

\* C17: a refresh that succeeds adds and removes no session row and the new
\* tokens carry the session_key of the token presented; in the row of that
\* key it replaces csrf_state with a value not in use before and nothing
\* else (the counters request_counter, last_counter_update and
\* activity_times, which every request moves, are not compared); every
\* other row is left as it was.
C17_RefreshRotatesCsrfOnly ==
    [][RefreshIssued =>
        /\ DOMAIN sessions' = DOMAIN sessions
        /\ \A tok \in NewTokens :
              /\ \E t \in Threads : thr[t].pc = "refresh3" /\ thr[t].tok.session_key = tok.session_key
              /\ tok.session_key \in DOMAIN sessions
              /\ sessions'[tok.session_key].csrf_state \notin
                     {sessions[k].csrf_state : k \in DOMAIN sessions} \cup {c.val : c \in cookies}
              /\ sessions'[tok.session_key] =
                     [sessions[tok.session_key] EXCEPT
                         !.csrf_state = sessions'[tok.session_key].csrf_state,
                         !.request_counter = sessions'[tok.session_key].request_counter,
                         !.last_counter_update = sessions'[tok.session_key].last_counter_update,
                         !.activity_times = sessions'[tok.session_key].activity_times]
              /\ \A k \in DOMAIN sessions \ {tok.session_key} : sessions'[k] = sessions[k]]_vars

\* C18: every request to an endpoint under /api/ other than login and
\* register that carries a token of a user who is blocked is answered 403 by
\* check_user_blocked, before the CSRF gate, jwt_required or a handler; a
\* user without a status row is not blocked.
C18_BlockedUserForbidden ==
    /\ \A op \in Ops, tok \in issued, c \in Clients, p \in CsrfPairs :
          tok.sub \in blocked => Answer(op, tok, c, p) = "403 blocked"
    /\ \A u \in Users \ blocked : ~IsUserBlocked(blocked, u)

\* C19: when the block route's view blocks user u, the sentinel
\* user_all_tokens:u is in token_blacklist afterwards and
\* is_token_blacklisted(j, u) is True for every jti j.
C19_BlockRevokesAllTokens ==
    [][\A u \in Users \ {1} :
          (ToggleUserBlock(u, TRUE) /\ u \notin blocked) =>
              /\ Sentinels(blacklist', u) # {}
              /\ \A j \in Jtis : IsTokenBlacklisted(blacklist', j, u)]_vars

\* the time at which blacklist_user_tokens wrote a sentinel row
ChangeTime(row) == FromIso(row.expires_at) - SENTINEL_LIFETIME
\* the time at which a token was issued
IssuedAt(tok) ==
    tok.exp - (IF tok.type = "access" THEN GetTokenLifetime(settings, tok.sub)
               ELSE GetRefreshTokenLifetime(settings, tok.sub))
\* the tokens of u issued no later than the sentinel row was written
IssuedBefore(u, row) == {tok \in issued : tok.sub = u /\ IssuedAt(tok) <= ChangeTime(row)}

C21_FreshTokenRequired ==
    \A tok \in issued, c \in Clients, method \in AdminMethods, p \in CsrfPairs :
        LET r == AdminRequired(sessions, tok, c, method, AdminPath, p)
        IN  (VerifyJwtInRequest(sessions, tok, AdminPath, c).ok /\ IsAdmin(tok.sub))
            => ((r.status = "401 FRESH_TOKEN_REQUIRED")
                <=> (method \in MutatingMethods /\ now - IssuedAt(tok) > FRESH_TOKEN_AGE))

\* C22: a request whose token claims are unavailable to the gates of the
\* pipeline (block check, network-change gate, pattern gate, fingerprint
\* gate) is rejected: it does not reach the handler.
C22_GatesFailClosed ==
    \A op \in Ops, tok \in issued, c \in Clients, p \in CsrfPairs :
        JwtDataInHook(tok) = None => Answer(op, tok, c, p) # "handler"

\* C23: PUT /api/user/update is carried out (the view answers 200) only for
\* a request whose X-Device-Fingerprint equals the fingerprint stored for
\* the session of its token.
C23_SensitiveNeedsFingerprint ==
    \A t \in Threads :
        (thr[t].pc = "update" /\ UpdateStatus(sessions, thr[t], now, NoFault) = "200")
        => /\ thr[t].fp # None
           /\ thr[t].tok.session_key \in DOMAIN sessions
           /\ sessions[thr[t].tok.session_key].device_fingerprint = thr[t].fp

\* C24: the activity touch of a request that authenticates with a token of
\* session s sets last_activity of s to the current time and leaves
\* last_activity of every other session as it was.
C24_ActivityTouchesOneSession ==
    \A op \in Ops, tok \in issued :
        (PassesSomewhere(op, tok, NoFault) /\ tok.session_key \in DOMAIN sessions)
        => LET after == UpdateSessionActivity(sessions, PathOf(op), JwtDataInHook(tok), now)
           IN  /\ after[tok.session_key].last_activity = IsoFormat(now)
               /\ \A k \in DOMAIN sessions \ {tok.session_key} :
                      after[k].last_activity = sessions[k].last_activity

\* C25: the request_counter of a session never decreases, whatever the
\* interleaving of the reads and writes of concurrent track_request_counter
\* calls.
C25_RequestCounterMonotonic ==
    [][\A k \in DOMAIN sessions \cap DOMAIN sessions' :
          sessions'[k].request_counter >= sessions[k].request_counter]_vars

\* C26: a call of check_network_change (here the one of update_user_profile)
\* on a session without a stored hash stores the current hash and reports
\* no change; on a session whose stored hash differs from the current one it
\* reports a change and keeps the stored hash; with the same hash it reports
\* no change.
C26_NetworkChangeDetected ==
    [][\A t \in Threads :
          LET th == thr[t]
              k == th.tok.session_key
              current == GetIpNetworkHash(th.ip, th.ua)
          IN  (/\ th.pc = "update" /\ thr'[t].pc = "idle"
               /\ k \in DOMAIN sessions /\ k \in DOMAIN sessions'
               /\ UpdateStatus(sessions, th, now, NoFault) = "200")
              => IF sessions[k].ip_network_hash = NoHash
                 THEN /\ sessions'[k].ip_network_hash = current
                      /\ ~NetworkChanged(sessions, k, th.ip, th.ua)
                 ELSE IF sessions[k].ip_network_hash # current
                 THEN /\ NetworkChanged(sessions, k, th.ip, th.ua)
                      /\ sessions'[k].ip_network_hash = sessions[k].ip_network_hash
                 ELSE ~NetworkChanged(sessions, k, th.ip, th.ua)]_vars

\* the list has three neighbouring gaps in a row that are below 0.5 s
ThreeConsecutiveRapidGaps(s) ==
    \E i \in 2..(Len(s) - 2) : \A j \in i..(i + 2) : 2 * (s[j] - s[j - 1]) < 1

\* C27: track_activity_pattern (here the call that ends a refresh) appends
\* the current time to the session's activity_times, keeping the last 20,
\* and flags the call exactly when the list then has three consecutive gaps
\* below 0.5 s.
C27_ActivityPatternFlag ==
    [][\A t \in Threads :
          LET k == thr[t].tok.session_key
              retained == Last20(Append(sessions[k].activity_times, now))
          IN  (/\ thr[t].pc \in {"refresh4", "refresh5"} /\ thr'[t].pc = "idle"
               /\ k \in DOMAIN sessions /\ k \in DOMAIN sessions')
              => /\ sessions'[k].activity_times = retained
                 /\ PatternSuspicious(sessions, k, now) <=> ThreeConsecutiveRapidGaps(retained)]_vars

\* the track_activity_pattern calls completed so far on session k: one per
\* pair of tokens that refresh issued for k, less the refreshes still on
\* their way to the call
RecordedCalls(k) ==
    Cardinality({tok \in issued : tok.type = "access" /\ tok.created_at # <<>> /\ tok.session_key = k})
    - Cardinality({t \in Threads : thr[t].pc \in {"refresh4", "refresh5"} /\ thr[t].tok.session_key = k})

\* C28: the activity_times list of a session never holds more than 20
\* timestamps, and it holds the last min(n, 20) of the n timestamps recorded
\* for the session.
C28_ActivityTimesWindow ==
    \A k \in DOMAIN sessions :
        /\ Len(sessions[k].activity_times) <= ACTIVITY_TIMES_KEPT
        /\ Len(sessions[k].activity_times) =
               (IF RecordedCalls(k) < ACTIVITY_TIMES_KEPT THEN RecordedCalls(k) ELSE ACTIVITY_TIMES_KEPT)
        /\ \A i \in 1..Len(sessions[k].activity_times) : sessions[k].activity_times[i] <= now

\* C29: the sweep clear_expired_tokens, run on the blacklist at the current
\* time, removes exactly the rows whose expiry lies before that time: rows
\* written by refresh or logout with the token's exp, and sentinel rows,
\* stay until their expiry.
C29_SweepRemovesOnlyExpired ==
    ClearExpiredTokens(blacklist, now)
        = SelectSeq(blacklist, LAMBDA row : ~(row.expires_at.t < now))

\* C30: a step that deletes session k and is not the expiry sweep (logout)
\* leaves the jti of a token of k blacklisted; while the row of session k is
\* gone, no request with a token that carries session_key k passes
\* jwt_required; and a logout that would be served is served with every
\* other X-Device-Fingerprint value as well.
C30_LogoutEndsSession ==
    /\ [][\A k \in DOMAIN sessions \ DOMAIN sessions' :
             sessions' # ClearExpired(sessions, now)
             => \E tok \in issued : tok.session_key = k /\ HasJti(blacklist', tok.jti)]_vars
    /\ [](\A tok \in issued, op \in Ops, c \in Clients :
             (tok.session_key # NoId /\ tok.session_key \notin DOMAIN sessions)
             => Gate(op, tok, c, NoFault) # "pass")
    /\ [](\A tok \in issued, c \in Clients, f \in Fingerprints :
             Gate("logout", tok, c, NoFault) = "pass"
             => Gate("logout", tok, [c EXCEPT !.fp = f], NoFault) = "pass")

\* C31: of the POST /api/refresh requests that present one refresh token at
\* most one issues new tokens: a refresh never issues tokens for a token
\* that an earlier refresh has already consumed.
C31_OneRefreshPerToken ==
    [][\A t \in Threads :
          (thr[t].pc = "refresh3" /\ issued' # issued) => thr[t].tok \notin UsedRefreshTokens]_vars

\* C32: a request that presents an unexpired token of the right type, itself
\* issued more than MAX_INACTIVITY ago, on an active session whose last
\* recorded activity lies more than MAX_INACTIVITY back is turned away by jwt_required and leaves the session's state
\* "expired": the hooks that run before the check do not move last_activity.
C32_IdleSessionExpires ==
    \A op \in Ops, tok \in issued, c \in Clients :
        LET k == tok.session_key
        IN  (/\ tok.exp > now /\ tok.type = TokenTypeOf(op)
             /\ k \in DOMAIN sessions
             /\ sessions[k].state = "active"
             /\ now - FromIso(sessions[k].last_activity) > MAX_INACTIVITY
             /\ now - IssuedAt(tok) > MAX_INACTIVITY)
            => /\ UpdateSessionActivity(sessions, PathOf(op), JwtDataInHook(tok), now) = sessions
               /\ Gate(op, tok, c, NoFault) # "pass"
               /\ GateSessions(op, tok, c, NoFault)[k].state = "expired"

\* C33: a POST /api/refresh that its handler turns away issues no token and
\* leaves every session row in the table with its csrf_state and
\* device_fingerprint; when the rejection is the 403 of the token's fp_hash
\* comparison the blacklist is unchanged, and when it is the later 401 or
\* 403 the jti of the presented token is in the blacklist.
C33_RejectedRefreshKeepsSession ==
    [][\A t \in Threads :
          LET th == thr[t]
          IN  (th.pc = "refresh" /\ thr'[t].pc = "idle")
              => /\ issued' = issued
                 /\ \A k \in DOMAIN sessions :
                       /\ k \in DOMAIN sessions'
                       /\ sessions'[k].csrf_state = sessions[k].csrf_state
                       /\ sessions'[k].device_fingerprint = sessions[k].device_fingerprint
                 /\ IF th.tok.fp_hash # NoHash /\ th.fp # None /\ th.tok.fp_hash # Sha256(th.fp)
                    THEN blacklist' = blacklist
                    ELSE HasJti(blacklist', th.tok.jti)]_vars
\* a refresh has been turned away by its handler: the refresh token of a
\* session that still exists is blacklisted, no request is in a handler and
\* no refresh has issued a token
C33_Witness ==
    /\ \A t \in Threads : Free(t)
    /\ RefreshesDone = 0
    /\ \E tok \in issued :
          /\ tok.type = "refresh"
          /\ tok.session_key \in DOMAIN sessions
          /\ HasJti(blacklist, tok.jti)

\* the requests a client can send: method and path of an endpoint or of an
\* admin route
RequestLines ==
    {<<MethodOf(op), PathOf(op)>> : op \in Ops} \cup {<<m, AdminPath>> : m \in AdminMethods}

\* C34: a request that the block check or the CSRF check answers leaves
\* last_activity, request_counter, activity_times and ip_network_hash of
\* every session as they were: the hooks registered after the two do not run.
C34_RejectedEarlyWritesNothing ==
    \A r \in RequestLines, tok \in issued, c \in Clients, p \in CsrfPairs :
        LET h == BeforeRequestHooks(r[1], r[2], tok, c, p)
        IN  h.answer \in {"403 blocked", "403 csrf"}
            => /\ DOMAIN h.ss = DOMAIN sessions
               /\ \A k \in DOMAIN sessions :
                     /\ h.ss[k].last_activity = sessions[k].last_activity
                     /\ h.ss[k].request_counter = sessions[k].request_counter
                     /\ h.ss[k].activity_times = sessions[k].activity_times
                     /\ h.ss[k].ip_network_hash = sessions[k].ip_network_hash
\* a request of a user with a session is answered by the CSRF check at a
\* time later than the session's last_activity
C34_Witness ==
    \E r \in RequestLines, tok \in issued, c \in Clients, p \in CsrfPairs :
        /\ BeforeRequestHooks(r[1], r[2], tok, c, p).answer = "403 csrf"
        /\ tok.session_key \in DOMAIN sessions
        /\ FromIso(sessions[tok.session_key].last_activity) < now

\* C35: a GET request that presents an unexpired access token and, as
\* cookie, the csrf_state of the token's session gets a new csrf_state
\* written to that session and passes the hooks when the cookie's timestamp
\* is more than 5 minutes old; with a younger or untimestamped csrf_state,
\* and for every other method, the hooks leave the session's csrf_state as
\* it was.
C35_CsrfRotation ==
    \A op \in Ops, tok \in issued, c \in Clients :
        LET k == tok.session_key
            v == sessions[k].csrf_state
            h == BeforeRequestHooks(MethodOf(op), PathOf(op), tok, c, <<v, v>>)
        IN  (tok.type = "access" /\ tok.exp > now /\ k \in DOMAIN sessions)
            => IF /\ MethodOf(op) = "GET"
                  /\ CsrfHasTimestamp(v) /\ now - v[2] > CSRF_ROTATE_AGE
               THEN /\ h.answer = "pass"
                    /\ h.ss[k].csrf_state # v
                    /\ CsrfHasTimestamp(h.ss[k].csrf_state)
               ELSE h.ss[k].csrf_state = v

\* C36: no step changes the user_id, the expires_at or the
\* device_fingerprint of a session row that exists before and after it:
\* login, refresh, the hooks, the counters and monitors, profile updates
\* and the sweep leave every surviving row with the user, expiry and
\* fingerprint it was created with.
C36_SessionIdentityFixed ==
    [][\A k \in DOMAIN sessions \cap DOMAIN sessions' :
          /\ sessions'[k].user_id = sessions[k].user_id
          /\ sessions'[k].expires_at = sessions[k].expires_at
          /\ sessions'[k].device_fingerprint = sessions[k].device_fingerprint]_vars

\* a session stored with a fingerprint has been refreshed: it has the two
\* tokens of its login and the two of a refresh
C36_Witness ==
    \E k \in DOMAIN sessions :
        /\ sessions[k].device_fingerprint # None
        /\ Cardinality({tok \in issued : tok.session_key = k}) >= 4

\* C37: a login leaves token_blacklist as it is, sentinel included, and
\* succeeds with the sentinel present; while user_all_tokens:u is in the
\* table no token of u passes any endpoint, and one that is unexpired and
\* of the endpoint's type is answered 401 by check_if_token_revoked.
C37_SentinelOutlivesLogin ==
    /\ [][nextKey' # nextKey => blacklist' = blacklist]_vars
    /\ [](\A tok \in issued, op \in Ops, c \in Clients :
            Sentinels(blacklist, tok.sub) # {}
                => /\ Gate(op, tok, c, NoFault) # "pass"
                   /\ (tok.exp > now /\ tok.type = TokenTypeOf(op))
                         => Gate(op, tok, c, NoFault) = "401 revoked")

\* the user has logged in after the sentinel was written, the sentinel is
\* still there and the new access token has not expired
C37_Witness ==
    \E tok \in issued, i \in 1..Len(blacklist) :
        /\ blacklist[i].jti = SentinelJti(tok.sub)
        /\ tok.type = "access" /\ tok.exp > now
        /\ tok.session_key \in DOMAIN sessions
        /\ FromIso(sessions[tok.session_key].last_activity) > ChangeTime(blacklist[i])

\* C38: track_request_counter never returns suspicious = True: not for a
\* call that starts in the current state, whatever the age of
\* last_counter_update, and not for a call in flight between its SELECT
\* and its UPDATE, whatever other calls have written since it read.
C38_CounterNeverSuspicious ==
    /\ \A k \in DOMAIN sessions : ~CounterSuspicious(sessions, k, now)
    /\ \A t \in Threads :
          (thr[t].pc = "refresh4" /\ thr[t].tok.session_key \in DOMAIN sessions)
              => ~CounterSuspicious(
                    [sessions EXCEPT ![thr[t].tok.session_key].request_counter =
                                         thr[t].current_counter],
                    thr[t].tok.session_key, now)

\* a call holds a counter value that another call has since overwritten,
\* less than 2 s after the last update
C38_Witness ==
    \E t \in Threads :
        /\ thr[t].pc = "refresh4"
        /\ thr[t].tok.session_key \in DOMAIN sessions
        /\ sessions[thr[t].tok.session_key].request_counter > thr[t].current_counter
        /\ now - FromIso(sessions[thr[t].tok.session_key].last_counter_update) < 2

\* track_activity_pattern called n more times at time t on session k
MaxPatternCalls == 5
RECURSIVE TrackedAgain(_, _, _, _)
TrackedAgain(ss, k, t, n) ==
    IF n = 0 THEN ss ELSE TrackActivityPattern(TrackedAgain(ss, k, t, n - 1), k, t)

\* C39: track_activity_pattern reports no session suspicious, not even
\* at the last of the calls that one request makes at one instant; the
\* pattern gate lets the request through on every path, and the risk level
\* of perform_comprehensive_checks on an admin path is never high.
C39_SpacedRequestsNotSuspicious ==
    \A tok \in issued, n \in 0..MaxPatternCalls, c \in Clients :
        LET k == tok.session_key
            ss == TrackedAgain(sessions, k, now, n)
            risk == PerformComprehensiveChecks(ss, k, c.ip, c.ua, AdminPath, now)
        IN  k \in DOMAIN sessions
            => /\ ~PatternSuspicious(ss, k, now)
               /\ \A op \in Ops :
                     AnalyzeRequestPatterns(ss, MethodOf(op), PathOf(op),
                                            JwtDataInHook(tok), now) = "pass"
               /\ AnalyzeRequestPatterns(ss, "GET", AdminPath, JwtDataInHook(tok), now) = "pass"
               /\ ~risk.suspicious_activity
               /\ risk.risk_level # "high"

\* a session whose second request came a second or more after its login
\* and recorded its time
C39_Witness ==
    \E k \in DOMAIN sessions :
        /\ sessions[k].activity_times # <<>>
        /\ sessions[k].activity_times[1] > FromIso(sessions[k].last_activity)

\* the csrf_state values a session row may hold in the second of two runs
StoredCsrfValues == {c.val : c \in cookies} \cup {ForgedCsrf, OtherForgedCsrf}

\* C40: the CSRF gates decide from the request and the clock alone.  A
\* step that leaves the clock where it is, whatever it writes to
\* user_sessions, changes the answer of check_csrf for no request; and the
\* answer of validate_request is the same on two session tables that
\* differ only in the csrf_state of one row.
C40_CsrfIgnoresStoredState ==
    /\ [][now' = now =>
             \A op \in Ops, p \in CsrfPairs :
                 CheckCsrf(MethodOf(op), PathOf(op), p[1], p[2], now)
                     = CheckCsrf(MethodOf(op), PathOf(op), p[1], p[2], now)']_vars
    /\ [](\A tok \in issued, c \in Clients, p \in CsrfPairs, v \in StoredCsrfValues,
             method \in {"GET", "POST"}, level \in {"basic", "high"} :
             LET k == tok.session_key
                 other == [sessions EXCEPT ![k].csrf_state = v]
             IN  k \in DOMAIN sessions
                 => ValidateRequest(sessions, tok, c, method, AdminPath, p, level, level = "high").status
                    = ValidateRequest(other, tok, c, method, AdminPath, p, level, level = "high").status)

\* a refresh has replaced the session's csrf_state, and a POST that still
\* carries the value of the login, stored in no row any more, passes
\* check_csrf
C40_Witness ==
    \E c \in cookies :
        /\ sessions # <<>>
        /\ \A k \in DOMAIN sessions : sessions[k].csrf_state # c.val
        /\ CheckCsrf("POST", PathOf("refresh"), c.val, c.val, now)

====
